---- MODULE Spec2Model ----
(***************************************************************************)
(* The church membership REST backend (backend/server.py) as a state       *)
(* machine.  The store is the MongoDB collections the handlers read and    *)
(* write; every awaited store operation of a handler is one atomic step,   *)
(* and steps of different requests interleave freely.                      *)
(***************************************************************************)
EXTENDS Integers, Sequences, FiniteSets, TLC

VARIABLES
    users,      \* db.users: sequence of [id, username, role], insertion order
    members,    \* db.members: sequence of member documents, insertion order
    events,     \* db.events: sequence of [id, title]
    files,      \* names of the files present in UPLOADS_DIR
    services,       \* db.services: [member_original_id, service_type_id, end_date]
    service_types,  \* db.service_types: [original_id, name_ukr]
    families,       \* db.families: [original_id, husband_id, wife_id]
    children,       \* db.children: [original_id, family_id]
    reference_data, \* db.reference_data: [type, data], data the table's items in order
    nextUid,    \* the next fresh user id (uuid.uuid4())
    nextEid,    \* the next fresh event id (uuid.uuid4())
    nextFile,   \* the next fresh upload file name (uuid.uuid4().hex[:8])
    req,        \* per worker: the request in flight (its position and locals)
    resp        \* the response sent by the latest step, NoResponse if none

\* the collections only the legacy import writes
imported == <<services, service_types, families, children, reference_data>>

vars == <<users, members, events, files, imported, nextUid, nextEid, nextFile, req, resp>>

store == <<users, members, events, files, imported>>

----------------------------------------------------------------------------
\* Bounds of the model

NProc == 2          \* requests that can be in flight together
MaxUid == 2         \* user documents ever inserted
MaxMembers == 2     \* member documents ever inserted
MaxEvents == 1      \* event documents ever inserted
MaxFiles == 1       \* photo files ever written

Procs == 1..NProc

Min(S) == CHOOSE x \in S : \A y \in S : x <= y
Max(S) == CHOOSE x \in S : \A y \in S : x >= y

\* Optional[T]: <<>> is None, <<v>> is a given value
None == <<>>
Some(v) == <<v>>

----------------------------------------------------------------------------
\* Inputs

\* A date string: text "iso" is a parseable date y-m-d, "junk" any other
\* non-empty string, "empty" the empty string, "null" is None.
NullDate == [text |-> "null", y |-> 0, m |-> 0, d |-> 0]
JunkDate == [text |-> "junk", y |-> 0, m |-> 0, d |-> 0]
IsoDate(y, m, d) == [text |-> "iso", y |-> y, m |-> m, d |-> d]

----------------------------------------------------------------------------
\* Store helpers: find_one returns the first matching document

\* I: the positions of the matching documents; 0 when there is none
First(I) == IF I = {} THEN 0 ELSE Min(I)

\* cursor.to_list(n) of the documents at positions I: the first n, in store order
to_list(I, n) == {i \in I : Cardinality({j \in I : j < i}) < n}

RemoveAt(s, i) == [j \in 1..(Len(s) - 1) |-> IF j < i THEN s[j] ELSE s[j + 1]]

NoUser == [id |-> 0, username |-> "", role |-> ""]

Idle == [pc |-> "idle"]

\* a response: the operation, the HTTP status, and the user id the request's
\* token named (0: no token, an invalid one, or a route that takes none)
Response(op, token, status) == [op |-> op, token |-> token, status |-> status]
NoResponse == Response("none", 0, 0)

----------------------------------------------------------------------------
\* Models (pydantic defaults)

UserCreate_role(role_in) == IF role_in = None THEN "user" ELSE role_in[1]

MemberCreate_gender(gender_in) == IF gender_in = None THEN "male" ELSE gender_in[1]

----------------------------------------------------------------------------
\* Auth helpers

\* The token of a request: k > 0 is a valid token whose sub is user id k, 0 a
\* bearer token that jwt.decode rejects (malformed, forged, expired) or that
\* has no sub, NoCredentials a request with no bearer credentials at all.
NoCredentials == 0 - 1

get_current_user_of_token(token) ==
    IF token <= 0 THEN NoUser
    ELSE IF token = 1 THEN [id |-> 1, username |-> "alice", role |-> "admin"]
    ELSE [id |-> token, username |-> "bob", role |-> "user"]

\* jwt.decode and db.users.find_one({"id": user_id})
get_current_user(token) ==
    LET i == First({k \in 1..Len(users) : users[k].id = token})
    IN  IF token <= 0 \/ i = 0 THEN NoUser ELSE users[i]

require_admin(user) == user.role \in {"admin"}

require_editor_any(user) == user.role \in {"admin", "presbyter", "deacon", "user"}

require_editor(user) == user.role \in {"admin", "presbyter", "deacon"}

\* The dependency each handler declares (Depends(...) in its signature)
Depends(op) ==
    CASE op \in {"delete_member", "get_users", "update_user_role", "delete_user"}
            -> "require_admin"
      [] op \in {"create_member", "update_member", "upload_member_photo",
                 "delete_member_photo", "create_event", "update_event", "delete_event"}
            -> "require_editor"
      [] OTHER -> "get_current_user"

Authorized(op, user) ==
    CASE Depends(op) = "require_admin" -> require_admin(user)
      [] Depends(op) = "require_editor" -> require_editor(user)
      [] OTHER -> TRUE

----------------------------------------------------------------------------
\* Member documents

gender_ukr(gender) == IF gender = "male" THEN "brat" ELSE "sestra"

\* MemberUpdate payloads (the fields modelled: pib, gender, is_active)
NoUpdate == [pib |-> None, gender |-> None, is_active |-> None]

\* {k: v for k, v in member_data.model_dump().items() if v is not None}
update_dict(member_data) == {k \in DOMAIN member_data : member_data[k] # None}

\* the document after {"$set": update_dict}, gender_ukr following gender
SetFields(m, member_data) ==
    [f \in DOMAIN m |->
        IF f \in update_dict(member_data) THEN member_data[f][1]
        ELSE IF f = "gender_ukr" /\ "gender" \in update_dict(member_data)
             THEN gender_ukr(member_data.gender[1])
             ELSE m[f]]

next_id_of_active(ms) ==
    LET A == {i \in 1..Len(ms) : ms[i].is_active}
    IN  (IF A = {} THEN 0 ELSE Max({ms[i].original_id : i \in A})) + 1

\* db.members.find_one(sort=[("original_id", -1)]) and the next id
next_id_of(ms) ==
    (IF ms = <<>> THEN 0 ELSE Max({ms[i].original_id : i \in 1..Len(ms)})) + 1

\* member_data.x or "": None and the empty string both give ""
or_empty(v) == IF v = None THEN "" ELSE v[1]

\* lines 381-404: the member dict before the reference names are added
NewMember(next_id, a) ==
    [original_id |-> next_id,
     pib |-> a.pib,
     gender |-> MemberCreate_gender(a.gender),
     gender_ukr |-> gender_ukr(MemberCreate_gender(a.gender)),
     birth_date |-> a.birth_date,
     marital_status_id |-> or_empty(a.marital_status_id),
     social_status_id |-> or_empty(a.social_status_id),
     education_id |-> or_empty(a.education_id),
     profession_id |-> or_empty(a.profession_id),
     is_active |-> TRUE,
     departure_date |-> None,
     photo_url |-> None]

\* MemberCreate payloads that give no reference key
NoKeys ==
    [marital_status_id |-> None, social_status_id |-> None,
     education_id |-> None, profession_id |-> None]

\* a reference table document: data is the dict's items, in the dict's order
ReferenceData(type, data) == [type |-> type, data |-> data]

Item(key, label) == [key |-> key, label |-> label]

\* db.reference_data.find_one({"type": ref_type}): its position, 0 when absent
find_ref(refs, ref_type) == First({k \in 1..Len(refs) : refs[k].type = ref_type})

\* ref.get("data", {}).get(key, "")
label_of(data, key) ==
    LET j == First({k \in 1..Len(data) : data[k].key = key})
    IN  IF j = 0 THEN "" ELSE data[j].label

\* lines 407-412: the (ref_type, field) pairs create_member resolves
RefTypes == {"marital_status", "social_status", "education", "profession"}

RefField(ref_type) ==
    CASE ref_type = "marital_status" -> "marital_status_id"
      [] ref_type = "social_status" -> "social_status_id"
      [] ref_type = "education" -> "education_id"
      [] ref_type = "profession" -> "profession_id"

\* lines 407-415: member[ref_type] is set for the tables that exist ("if ref:")
reference_names(member, refs) ==
    LET found == {t \in RefTypes : find_ref(refs, t) # 0}
    IN  [f \in DOMAIN member \cup found |->
            IF f \in found
            THEN label_of(refs[find_ref(refs, f)].data, member[RefField(f)])
            ELSE member[f]]

\* index of the document find_one / update_one({"original_id": member_id}) selects
MemberIdx(ms, member_id) == First({k \in 1..Len(ms) : ms[k].original_id = member_id})

----------------------------------------------------------------------------
\* Imported documents

Service(id, member_id, type_id, end_date) ==
    [original_id |-> id, member_original_id |-> member_id,
     service_type_id |-> type_id, start_date |-> IsoDate(1990 + id, 1, 1),
     end_date |-> end_date]

ServiceType(id, name) == [original_id |-> id, name_ukr |-> name]

\* three types: one with two holders, one with a holder and a past holder, one
\* with a past holder only; and a service whose type was not imported
FewTypes == << ServiceType(1, "choir"), ServiceType(2, "usher"), ServiceType(3, "youth") >>

FewServices ==
    << Service(1, 1, 1, NullDate), Service(2, 1, 1, IsoDate(2020, 1, 1)),
       Service(3, 1, 2, NullDate), Service(4, 2, 2, NullDate),
       Service(5, 2, 3, IsoDate(2020, 1, 1)), Service(6, 2, 0, NullDate) >>

Family(id, husband_id, wife_id) ==
    [original_id |-> id, husband_id |-> husband_id, wife_id |-> wife_id]

ViewChildren ==
    LET Child(id, family_id) == [original_id |-> id, family_id |-> family_id]
    IN  << Child(1, 1), Child(2, 2), Child(3, 1) >>

----------------------------------------------------------------------------
\* Requests

InFlight(op) == Cardinality({q \in Procs : req[q].pc # "idle" /\ req[q].op = op})

\* The arguments a client can send with each operation, drawn from the
\* input sets In of the specification
ArgsOf(op, In) ==
    CASE op = "update_user_role" ->
            [user_id : In.user_ids, role : In.role_params]
      [] op = "delete_user" ->
            [user_id : In.user_ids]
      [] op = "create_member" ->
            [pib : In.pibs, gender : In.genders, birth_date : In.birth_dates,
             marital_status_id : In.marital_status_ids,
             social_status_id : In.social_status_ids,
             education_id : In.education_ids,
             profession_id : In.profession_ids]
      [] op = "update_member" ->
            [member_id : In.member_ids, member_data : In.updates]
      [] op \in {"delete_member", "get_member", "delete_member_photo"} ->
            [member_id : In.member_ids]
      [] op = "upload_member_photo" ->
            [member_id : In.member_ids, content_type : {"image/png", "text/plain"}]
      [] op = "create_event" ->
            [title : {"t"}, event_date : In.event_dates]
      [] op = "update_event" ->
            [event_id : In.event_ids, title : {None, Some("u")}]
      [] op = "delete_event" ->
            [event_id : In.event_ids]
      [] op = "get_upcoming_birthdays" ->
            [days : In.days]
      [] op = "get_birthdays" ->
            [month : In.months]
      [] op = "get_calendar_data" ->
            [year : In.years, month : In.months]
      [] op = "get_members" ->
            [page : In.pages, limit : In.limits, active_only : BOOLEAN,
             gender : {None}]
      [] OTHER -> {[none |-> 0]}

\* The model's bounds on what is ever inserted
Admissible(op) ==
    CASE op = "create_member" -> Len(members) + InFlight(op) < MaxMembers
      [] op = "create_event" -> (nextEid - 1) + InFlight(op) < MaxEvents
      [] op = "upload_member_photo" -> (nextFile - 1) + InFlight(op) < MaxFiles
      [] OTHER -> TRUE

Finish(p, op, token, status) ==
    /\ req' = [req EXCEPT ![p] = Idle]
    /\ resp' = Response(op, token, status)

\* A request for one of Ops arrives without bearer credentials: HTTPBearer
\* rejects it
RequestAnonymous(p, Ops) ==
    \* security = HTTPBearer(): a request without bearer credentials never reaches
    \* get_current_user; HTTPBearer raises "Not authenticated", with status 403 in
    \* the FastAPI releases that predate its change to 401, and 401 after it.  The
    \* repository pins no release.
    LET NotAuthenticated == {401, 403}
    IN
    /\ req[p].pc = "idle"
    /\ \E op \in Ops, status \in NotAuthenticated :
          Finish(p, op, NoCredentials, status)
    /\ UNCHANGED <<store, nextUid, nextEid, nextFile>>

\* A request for one of Ops arrives with a bearer token: get_current_user reads
\* the user document and the handler's dependency checks its role.
Request(p, Ops, In) ==
    /\ req[p].pc = "idle"
    /\ \E op \in Ops, token \in 0..(nextUid - 1) :
        /\ Admissible(op)
        /\ LET user == get_current_user(token) IN
            \/ /\ user = NoUser
               /\ Finish(p, op, token, 401)
            \/ /\ user # NoUser
               /\ ~Authorized(op, user)
               /\ Finish(p, op, token, 403)
            \/ /\ user # NoUser
               /\ Authorized(op, user)
               /\ \E args \in ArgsOf(op, In) :
                     req' = [req EXCEPT ![p] =
                               [pc |-> op, op |-> op, args |-> args, user |-> user]]
               /\ resp' = NoResponse
    /\ UNCHANGED <<store, nextUid, nextEid, nextFile>>

----------------------------------------------------------------------------
\* Auth routes

register_role_requested(user_count, role) == role

register_role(user_count, role) == IF user_count = 0 THEN "admin" ELSE role

\* register, lines 205-207: db.users.find_one({"username": ...})
register(p, In) ==
    /\ req[p].pc = "idle"
    /\ (nextUid - 1) + InFlight("register") < MaxUid
    /\ \E username \in In.usernames, role_in \in In.role_ins :
        \/ /\ First({k \in 1..Len(users) : users[k].username = username}) # 0
           /\ Finish(p, "register", 0, 400)
        \/ /\ First({k \in 1..Len(users) : users[k].username = username}) = 0
           /\ req' = [req EXCEPT ![p] =
                        [pc |-> "register_count", op |-> "register",
                         args |-> [username |-> username, role_in |-> role_in]]]
           /\ resp' = NoResponse
    /\ UNCHANGED <<store, nextUid, nextEid, nextFile>>

\* register, lines 210-211: db.users.count_documents({}) and the role
register_count(p) ==
    /\ req[p].pc = "register_count"
    /\ req' = [req EXCEPT ![p] =
                 [pc |-> "register_insert", op |-> "register", args |-> req[p].args,
                  role |-> register_role(Len(users), UserCreate_role(req[p].args.role_in))]]
    /\ UNCHANGED <<store, nextUid, nextEid, nextFile>>
    /\ resp' = NoResponse

\* register, lines 213-237: db.users.insert_one(user_doc)
register_insert(p) ==
    /\ req[p].pc = "register_insert"
    /\ users' = Append(users, [id |-> nextUid,
                               username |-> req[p].args.username,
                               role |-> req[p].role])
    /\ nextUid' = nextUid + 1
    /\ Finish(p, "register", 0, 200)
    /\ UNCHANGED <<imported, members, events, files, nextEid, nextFile>>

----------------------------------------------------------------------------
\* Users management

get_users(p) ==
    /\ req[p].pc = "get_users"
    /\ Finish(p, "get_users", req[p].user.id, 200)
    /\ UNCHANGED <<store, nextUid, nextEid, nextFile>>

ValidRole(role) == role \in {"admin", "presbyter", "deacon", "user"}

update_user_role(p) ==
    /\ req[p].pc = "update_user_role"
    /\ LET a == req[p].args
           i == First({k \in 1..Len(users) : users[k].id = a.user_id})
       IN  \/ /\ ~ValidRole(a.role)
              /\ Finish(p, "update_user_role", req[p].user.id, 400)
              /\ UNCHANGED users
           \/ /\ ValidRole(a.role)
              /\ i = 0
              /\ Finish(p, "update_user_role", req[p].user.id, 404)
              /\ UNCHANGED users
           \/ /\ ValidRole(a.role)
              /\ i # 0
              /\ users' = [users EXCEPT ![i].role = a.role]
              /\ Finish(p, "update_user_role", req[p].user.id, 200)
    /\ UNCHANGED <<imported, members, events, files, nextUid, nextEid, nextFile>>

delete_user(p) ==
    /\ req[p].pc = "delete_user"
    /\ LET a == req[p].args
           i == First({k \in 1..Len(users) : users[k].id = a.user_id})
       IN  \/ /\ a.user_id = req[p].user.id
              /\ Finish(p, "delete_user", req[p].user.id, 400)
              /\ UNCHANGED users
           \/ /\ a.user_id # req[p].user.id
              /\ i = 0
              /\ Finish(p, "delete_user", req[p].user.id, 404)
              /\ UNCHANGED users
           \/ /\ a.user_id # req[p].user.id
              /\ i # 0
              /\ users' = RemoveAt(users, i)
              /\ Finish(p, "delete_user", req[p].user.id, 200)
    /\ UNCHANGED <<imported, members, events, files, nextUid, nextEid, nextFile>>

----------------------------------------------------------------------------
\* Members routes

SortByPib(ms, I) ==
    \* sort("pib", 1): the order of the names, ties in insertion order
    LET PibRank(pib) == CASE pib = "a" -> 1 [] pib = "b" -> 2 [] OTHER -> 3
    IN
    LET Less(j, i) == \/ PibRank(ms[j].pib) < PibRank(ms[i].pib)
                      \/ PibRank(ms[j].pib) = PibRank(ms[i].pib) /\ j < i
    IN  [k \in 1..Cardinality(I) |->
            CHOOSE i \in I : Cardinality({j \in I : Less(j, i)}) = k - 1]

MembersQuery_all(ms, a) ==
    {i \in 1..Len(ms) : a.gender # None => ms[i].gender = a.gender[1]}

\* the query get_members builds from its parameters (search not modelled)
MembersQuery(ms, a) ==
    {i \in 1..Len(ms) :
        /\ (a.active_only => ms[i].is_active)
        /\ (a.gender # None => ms[i].gender = a.gender[1])}

\* db.members.find(query).sort("pib", 1).skip(skip).limit(limit).to_list(limit):
\* the positions in db.members of the documents listed, in order
get_members_page(ms, a) ==
    LET sorted == SortByPib(ms, MembersQuery(ms, a))
        skip == (a.page - 1) * a.limit
    IN  SubSeq(sorted, skip + 1, IF skip + a.limit < Len(sorted)
                                 THEN skip + a.limit ELSE Len(sorted))

\* get_members, lines 287-320: the page of members
get_members(p) ==
    /\ req[p].pc = "get_members"
    /\ req' = [req EXCEPT ![p] =
                 [pc |-> "get_members_count", op |-> "get_members",
                  args |-> req[p].args, user |-> req[p].user,
                  listed |-> get_members_page(members, req[p].args)]]
    /\ UNCHANGED <<store, nextUid, nextEid, nextFile>>
    /\ resp' = NoResponse

\* get_members, lines 329-336: db.members.count_documents(query)
get_members_count(p) ==
    /\ req[p].pc = "get_members_count"
    /\ Finish(p, "get_members", req[p].user.id, 200)
    /\ UNCHANGED <<store, nextUid, nextEid, nextFile>>

\* get_member, lines 340-342: 0 is the 404, else the position of the document
get_member_doc(ms, member_id) == MemberIdx(ms, member_id)

ServicesCap == 100   \* services.find(...).to_list(100)
ChildrenCap == 20    \* children.find(...).to_list(20)

\* the positions I as a list, in store order (the order a cursor yields them)
in_order(I) ==
    [r \in 1..Cardinality(I) |->
        CHOOSE i \in I : Cardinality({j \in I : j < i}) = r - 1]

\* lines 345-356: the summaries of the member's services; a service whose
\* type is not in service_types gets none
service_names(ss, sts, member_id) ==
    LET fetched == in_order(to_list({i \in 1..Len(ss) :
                                        ss[i].member_original_id = member_id},
                                    ServicesCap))
        st(i) == First({t \in 1..Len(sts) : sts[t].original_id = ss[i].service_type_id})
        found(i) == st(i) # 0
        typed == SelectSeq(fetched, found)
    IN  [r \in 1..Len(typed) |->
            [name |-> sts[st(typed[r])].name_ukr,
             start_date |-> ss[typed[r]].start_date,
             end_date |-> ss[typed[r]].end_date,
             is_active |-> ss[typed[r]].end_date.text = "null"]]

\* lines 359-362: families.find_one({"$or": [{husband_id}, {wife_id}]})
family_of(fs, member_id) ==
    First({k \in 1..Len(fs) : \/ fs[k].husband_id = Some(member_id)
                               \/ fs[k].wife_id = Some(member_id)})

spouse_id_of_husband(family, member_id) == family.husband_id

\* line 364: the other side of the family record
spouse_id_of(family, member_id) ==
    IF family.husband_id = Some(member_id) THEN family.wife_id ELSE family.husband_id

\* line 370: children.find({"family_id": ...}).to_list(20)
children_of(cs, family) ==
    LET fetched == in_order(to_list({i \in 1..Len(cs) :
                                        cs[i].family_id = family.original_id},
                                    ChildrenCap))
    IN  [r \in 1..Len(fetched) |-> cs[fetched[r]]]

\* line 366: members.find_one({"original_id": spouse_id}, {pib, original_id}),
\* None when no member has that id
spouse_of(ms, spouse_id) ==
    LET i == MemberIdx(ms, spouse_id)
    IN  IF i = 0 THEN None
        ELSE Some([pib |-> ms[i].pib, original_id |-> ms[i].original_id])

\* get_member, lines 340-365: the member, its services and its family record
\* (services, service_types and families are written by no handler, so these
\* reads see the same documents at whatever moment they are made)
get_member(p) ==
    /\ req[p].pc = "get_member"
    /\ LET member_id == req[p].args.member_id
           i == get_member_doc(members, member_id)
           f == family_of(families, member_id)
           view == [member |-> members[i],
                    services |-> service_names(services, service_types, member_id)]
       IN  \/ /\ i = 0
              /\ Finish(p, "get_member", req[p].user.id, 404)
           \/ /\ i # 0
              /\ f = 0
              /\ req' = [req EXCEPT ![p] = Idle]
              /\ resp' = [op |-> "get_member", token |-> req[p].user.id,
                          status |-> 200, body |-> view]
           \/ /\ i # 0
              /\ f # 0
              /\ spouse_id_of(families[f], member_id) = None
              /\ req' = [req EXCEPT ![p] = Idle]
              /\ resp' = [op |-> "get_member", token |-> req[p].user.id,
                          status |-> 200,
                          body |-> [member |-> view.member, services |-> view.services,
                                    children |-> children_of(children, families[f])]]
           \/ /\ i # 0
              /\ f # 0
              /\ spouse_id_of(families[f], member_id) # None
              /\ req' = [req EXCEPT ![p] =
                           [pc |-> "get_member_spouse", op |-> "get_member",
                            args |-> req[p].args, user |-> req[p].user,
                            view |-> view, family |-> families[f],
                            spouse_id |-> spouse_id_of(families[f], member_id)[1]]]
              /\ resp' = NoResponse
    /\ UNCHANGED <<store, nextUid, nextEid, nextFile>>

\* get_member, lines 366-373: the spouse, the children, the view returned
get_member_spouse(p) ==
    /\ req[p].pc = "get_member_spouse"
    /\ req' = [req EXCEPT ![p] = Idle]
    /\ resp' = [op |-> "get_member", token |-> req[p].user.id, status |-> 200,
                body |-> [member |-> req[p].view.member,
                          services |-> req[p].view.services,
                          spouse |-> spouse_of(members, req[p].spouse_id),
                          children |-> children_of(children, req[p].family)]]
    /\ UNCHANGED <<store, nextUid, nextEid, nextFile>>

\* create_member, lines 378-379: the member with the largest original_id
create_member(p) ==
    /\ req[p].pc = "create_member"
    /\ req' = [req EXCEPT ![p] =
                 [pc |-> "create_member_insert", op |-> "create_member",
                  args |-> req[p].args, user |-> req[p].user,
                  next_id |-> next_id_of(members)]]
    /\ UNCHANGED <<store, nextUid, nextEid, nextFile>>
    /\ resp' = NoResponse

\* create_member, lines 381-421: the reference names are resolved (no handler
\* writes db.reference_data) and db.members.insert_one(member)
create_member_insert(p) ==
    /\ req[p].pc = "create_member_insert"
    /\ members' = Append(members, reference_names(NewMember(req[p].next_id, req[p].args),
                                                  reference_data))
    /\ Finish(p, "create_member", req[p].user.id, 200)
    /\ UNCHANGED <<imported, users, events, files, nextUid, nextEid, nextFile>>

\* result.matched_count of update_one, i the position it selected (0: none)
matched_count_one(i) == 1

matched_count(i) == IF i = 0 THEN 0 ELSE 1

update_member(p) ==
    /\ req[p].pc = "update_member"
    /\ LET a == req[p].args
           i == MemberIdx(members, a.member_id)
       IN  \/ /\ update_dict(a.member_data) = {}
              /\ Finish(p, "update_member", req[p].user.id, 400)
              /\ UNCHANGED members
           \/ /\ update_dict(a.member_data) # {}
              /\ matched_count(i) = 0
              /\ Finish(p, "update_member", req[p].user.id, 404)
              /\ UNCHANGED members
           \/ /\ update_dict(a.member_data) # {}
              /\ matched_count(i) # 0
              /\ members' = IF i = 0 THEN members
                             ELSE [members EXCEPT ![i] = SetFields(@, a.member_data)]
              /\ Finish(p, "update_member", req[p].user.id, 200)
    /\ UNCHANGED <<imported, users, events, files, nextUid, nextEid, nextFile>>

Deactivated_clearing(m) ==
    [m EXCEPT !.is_active = FALSE, !.departure_date = Some("now"), !.photo_url = None]

\* {"$set": {"is_active": False, "departure_date": now}}
Deactivated(m) == [m EXCEPT !.is_active = FALSE, !.departure_date = Some("now")]

delete_member(p) ==
    /\ req[p].pc = "delete_member"
    /\ LET i == MemberIdx(members, req[p].args.member_id)
       IN  \/ /\ matched_count(i) = 0
              /\ Finish(p, "delete_member", req[p].user.id, 404)
              /\ UNCHANGED members
           \/ /\ matched_count(i) # 0
              /\ members' = IF i = 0 THEN members
                             ELSE [members EXCEPT ![i] = Deactivated(@)]
              /\ Finish(p, "delete_member", req[p].user.id, 200)
    /\ UNCHANGED <<imported, users, events, files, nextUid, nextEid, nextFile>>

----------------------------------------------------------------------------
\* Photo upload

\* upload_member_photo, lines 649-660: the member, the file type, the file name
upload_member_photo(p) ==
    /\ req[p].pc = "upload_member_photo"
    /\ LET a == req[p].args IN
        \/ /\ MemberIdx(members, a.member_id) = 0
           /\ Finish(p, "upload_member_photo", req[p].user.id, 404)
           /\ UNCHANGED nextFile
        \/ /\ MemberIdx(members, a.member_id) # 0
           /\ a.content_type # "image/png"
           /\ Finish(p, "upload_member_photo", req[p].user.id, 400)
           /\ UNCHANGED nextFile
        \/ /\ MemberIdx(members, a.member_id) # 0
           /\ a.content_type = "image/png"
           /\ req' = [req EXCEPT ![p] =
                        [pc |-> "upload_write", op |-> "upload_member_photo",
                         args |-> a, user |-> req[p].user, filename |-> nextFile]]
           /\ nextFile' = nextFile + 1
           /\ resp' = NoResponse
    /\ UNCHANGED <<store, nextUid, nextEid>>

upload_write_lost(p) ==
    /\ req[p].pc = "upload_write"
    /\ req' = [req EXCEPT ![p].pc = "upload_update"]
    /\ UNCHANGED <<store, nextUid, nextEid, nextFile>>
    /\ resp' = NoResponse

\* upload_member_photo, lines 663-665: the file is written
upload_write(p) ==
    /\ req[p].pc = "upload_write"
    /\ files' = files \cup {req[p].filename}
    /\ req' = [req EXCEPT ![p].pc = "upload_update"]
    /\ UNCHANGED <<imported, users, members, events, nextUid, nextEid, nextFile>>
    /\ resp' = NoResponse

\* upload_member_photo, lines 668-674: {"$set": {"photo_url": photo_url}}
upload_update(p) ==
    /\ req[p].pc = "upload_update"
    /\ LET i == MemberIdx(members, req[p].args.member_id)
       IN  members' = IF i = 0 THEN members
                      ELSE [members EXCEPT ![i].photo_url = Some(req[p].filename)]
    /\ Finish(p, "upload_member_photo", req[p].user.id, 200)
    /\ UNCHANGED <<imported, users, events, files, nextUid, nextEid, nextFile>>

\* delete_member_photo, lines 678-683: the member and its photo_url
delete_member_photo(p) ==
    /\ req[p].pc = "delete_member_photo"
    /\ LET i == MemberIdx(members, req[p].args.member_id) IN
        \/ /\ i = 0
           /\ Finish(p, "delete_member_photo", req[p].user.id, 404)
        \/ /\ i # 0
           /\ req' = [req EXCEPT ![p] =
                        [pc |-> "delete_photo_unlink", op |-> "delete_member_photo",
                         args |-> req[p].args, user |-> req[p].user,
                         photo_url |-> members[i].photo_url]]
           /\ resp' = NoResponse
    /\ UNCHANGED <<store, nextUid, nextEid, nextFile>>

\* delete_member_photo, lines 684-688: the file is removed if it exists
delete_photo_unlink(p) ==
    /\ req[p].pc = "delete_photo_unlink"
    /\ files' = IF req[p].photo_url # None THEN files \ {req[p].photo_url[1]} ELSE files
    /\ req' = [req EXCEPT ![p].pc = "delete_photo_update"]
    /\ UNCHANGED <<imported, users, members, events, nextUid, nextEid, nextFile>>
    /\ resp' = NoResponse

\* delete_member_photo, lines 691-696: {"$unset": {"photo_url": ""}}
delete_photo_update(p) ==
    /\ req[p].pc = "delete_photo_update"
    /\ LET i == MemberIdx(members, req[p].args.member_id)
       IN  members' = IF i = 0 THEN members
                      ELSE [members EXCEPT ![i].photo_url = None]
    /\ Finish(p, "delete_member_photo", req[p].user.id, 200)
    /\ UNCHANGED <<imported, users, events, files, nextUid, nextEid, nextFile>>

----------------------------------------------------------------------------
\* Events

\* lines 722-734: the event document (the fields modelled)
EventDoc(id, title, event_date, created_by) ==
    [id |-> id, title |-> title, event_date |-> event_date, created_by |-> created_by]

create_event(p) ==
    /\ req[p].pc = "create_event"
    /\ events' = Append(events, EventDoc(nextEid, req[p].args.title,
                                         req[p].args.event_date, req[p].user.id))
    /\ nextEid' = nextEid + 1
    /\ Finish(p, "create_event", req[p].user.id, 200)
    /\ UNCHANGED <<imported, users, members, files, nextUid, nextFile>>

update_event(p) ==
    /\ req[p].pc = "update_event"
    /\ LET a == req[p].args
           i == First({k \in 1..Len(events) : events[k].id = a.event_id})
       IN  \/ /\ a.title = None
              /\ Finish(p, "update_event", req[p].user.id, 400)
              /\ UNCHANGED events
           \/ /\ a.title # None
              /\ i = 0
              /\ Finish(p, "update_event", req[p].user.id, 404)
              /\ UNCHANGED events
           \/ /\ a.title # None
              /\ i # 0
              /\ events' = [events EXCEPT ![i].title = a.title[1]]
              /\ Finish(p, "update_event", req[p].user.id, 200)
    /\ UNCHANGED <<imported, users, members, files, nextUid, nextEid, nextFile>>

delete_event(p) ==
    /\ req[p].pc = "delete_event"
    /\ LET i == First({k \in 1..Len(events) : events[k].id = req[p].args.event_id})
       IN  \/ /\ i = 0
              /\ Finish(p, "delete_event", req[p].user.id, 404)
              /\ UNCHANGED events
           \/ /\ i # 0
              /\ events' = RemoveAt(events, i)
              /\ Finish(p, "delete_event", req[p].user.id, 200)
    /\ UNCHANGED <<imported, users, members, files, nextUid, nextEid, nextFile>>

----------------------------------------------------------------------------
\* Specifications

\* a store the legacy import has not filled
NoImport ==
    /\ services = <<>>
    /\ service_types = <<>>
    /\ families = <<>>
    /\ children = <<>>
    /\ reference_data = <<>>

Init ==
    /\ users = <<>>
    /\ members = <<>>
    /\ events = <<>>
    /\ files = {}
    /\ NoImport
    /\ nextUid = 1
    /\ nextEid = 1
    /\ nextFile = 1
    /\ req = [p \in Procs |-> Idle]
    /\ resp = NoResponse

AccountOps == {"get_users", "update_user_role", "delete_user"}
MemberOps == {"create_member", "update_member", "delete_member",
              "get_member", "get_members"}
PhotoOps == {"upload_member_photo", "delete_member_photo"}
EventOps == {"create_event", "update_event", "delete_event"}

Accounts(p, In) ==
    \/ register(p, In) \/ register_count(p) \/ register_insert(p)
    \/ get_users(p) \/ update_user_role(p) \/ delete_user(p)

Members(p) ==
    \/ create_member(p) \/ create_member_insert(p)
    \/ update_member(p) \/ delete_member(p)
    \/ get_member(p) \/ get_members(p) \/ get_members_count(p)

Photos(p) ==
    \/ upload_member_photo(p) \/ upload_write(p) \/ upload_update(p)
    \/ delete_member_photo(p) \/ delete_photo_unlink(p) \/ delete_photo_update(p)

MemberSeqInputs ==
    [marital_status_ids |-> {None},
     social_status_ids |-> {None},
     education_ids |-> {None},
     profession_ids |-> {None},
     pibs |-> {"a", "b"},
     genders |-> {None},
     birth_dates |-> {NullDate},
     member_ids |-> 1..MaxMembers,
     updates |-> { NoUpdate,
                   [NoUpdate EXCEPT !.is_active = Some(FALSE)],
                   [NoUpdate EXCEPT !.is_active = Some(TRUE)] },
     pages |-> 1..2,
     limits |-> {1, 50}]

MemberInputs ==
    [marital_status_ids |-> {None},
     social_status_ids |-> {None},
     education_ids |-> {None},
     profession_ids |-> {None},
     pibs |-> {"a"},
     genders |-> {None},
     birth_dates |-> {NullDate},
     member_ids |-> 1..MaxMembers,
     updates |-> { NoUpdate,
                   [NoUpdate EXCEPT !.is_active = Some(FALSE)],
                   [NoUpdate EXCEPT !.pib = Some("b"), !.gender = Some("male")] },
     pages |-> {1},
     limits |-> {50}]

AccessInputs ==
    [marital_status_ids |-> {None},
     social_status_ids |-> {None},
     education_ids |-> {None},
     profession_ids |-> {None},
     role_params |-> {"user", "guest"},
     user_ids |-> {2},
     pibs |-> {"a"},
     genders |-> {None},
     birth_dates |-> {NullDate},
     member_ids |-> {1},
     updates |-> {NoUpdate, [NoUpdate EXCEPT !.is_active = Some(FALSE)]},
     pages |-> {1},
     limits |-> {50},
     event_ids |-> {1},
     event_dates |-> {IsoDate(2026, 5, 17)}]

\* The account routes, requests interleaving
Next ==
    \* Input sets of the specifications
    LET AccountInputs ==
            [usernames |-> {"alice", "bob"},
             role_ins |-> {None, Some("admin"), Some("guest")},
             role_params |-> {"admin", "user", "guest"},
             user_ids |-> 1..MaxUid]
    IN  \E p \in Procs : Request(p, AccountOps, AccountInputs) \/ Accounts(p, AccountInputs)

Spec == Init /\ [][Next]_vars

\* The account routes, one request at a time
NextSeq ==
    LET SeqInputs ==
            [usernames |-> {"alice", "bob"},
             role_ins |-> {None, Some("deacon"), Some("admin")},
             role_params |-> {"user", "deacon", "guest"},
             user_ids |-> 1..MaxUid]
    IN  \E p \in {1} : Request(p, AccountOps, SeqInputs) \/ Accounts(p, SeqInputs)

SpecSeq == Init /\ [][NextSeq]_vars

\* Two registered users: the first (admin) and one registered as deacon
InitMembers ==
    /\ users = << [id |-> 1, username |-> "alice", role |-> "admin"],
                  [id |-> 2, username |-> "bob", role |-> "deacon"] >>
    /\ members = <<>>
    /\ events = <<>>
    /\ files = {}
    /\ NoImport
    /\ nextUid = 3
    /\ nextEid = 1
    /\ nextFile = 1
    /\ req = [p \in Procs |-> Idle]
    /\ resp = NoResponse

\* The member routes, requests interleaving
NextMembers == \E p \in Procs : Request(p, MemberOps, MemberInputs) \/ Members(p)

SpecMembers == InitMembers /\ [][NextMembers]_vars

\* The member routes, one request at a time
NextMembersSeq == \E p \in {1} : Request(p, MemberOps, MemberSeqInputs) \/ Members(p)

SpecMembersSeq == InitMembers /\ [][NextMembersSeq]_vars

\* Two registered users: the first (admin) and one of each other role; the
\* imported services and family name members 1 and 2
InitAccess ==
    /\ \E role \in {"presbyter", "deacon", "user"} :
          users = << [id |-> 1, username |-> "alice", role |-> "admin"],
                     [id |-> 2, username |-> "bob", role |-> role] >>
    /\ members = <<>>
    /\ events = <<>>
    /\ files = {}
    /\ service_types = FewTypes
    /\ services = FewServices
    /\ families = << Family(1, Some(1), Some(2)) >>
    /\ children = ViewChildren
    /\ reference_data = <<>>
    /\ nextUid = 3
    /\ nextEid = 1
    /\ nextFile = 1
    /\ req = [p \in Procs |-> Idle]
    /\ resp = NoResponse

\* Every route behind a role check, one request at a time
NextAccess ==
    LET Events(p) == create_event(p) \/ update_event(p) \/ delete_event(p)
    IN
    LET AccountAdmin(p) == get_users(p) \/ update_user_role(p) \/ delete_user(p)
    IN
    \E p \in {1} :
        \/ Request(p, AccountOps \cup MemberOps \cup PhotoOps \cup EventOps, AccessInputs)
        \/ AccountAdmin(p) \/ Members(p) \/ get_member_spouse(p)
        \/ Photos(p) \/ Events(p)

SpecAccess == InitAccess /\ [][NextAccess]_vars

\* The same routes, also asked for by clients that send no credentials
NextAuth ==
    \/ NextAccess
    \/ \E p \in {1} :
          RequestAnonymous(p, AccountOps \cup MemberOps \cup PhotoOps \cup EventOps)

SpecAuth == InitAccess /\ [][NextAuth]_vars

----------------------------------------------------------------------------
\* Statistics

ToListCap == 2000   \* members.find(...).to_list(2000)

\* the positions matched by the filters get_statistics uses
AllMembers(ms) == 1..Len(ms)
ActiveMembers(ms) == {i \in 1..Len(ms) : ms[i].is_active}

count_documents(I) == Cardinality(I)

AgeKeys == {"0-18", "19-30", "31-45", "46-60", "60+", "unknown"}

\* lines 473-491: the bucket one member's birth_date is counted in.  A null or
\* empty birth_date is falsy; int(bd[:4]) raises on a string that does not start
\* with a year.
age_group(bd, current_year) ==
    IF bd.text \in {"null", "empty"} THEN "unknown"
    ELSE IF bd.text # "iso" THEN "unknown"
    ELSE LET age == current_year - bd.y
         IN  IF age < 19 THEN "0-18"
             ELSE IF age < 31 THEN "19-30"
             ELSE IF age < 46 THEN "31-45"
             ELSE IF age < 61 THEN "46-60"
             ELSE "60+"

age_groups_of_all(ms, fetched, current_year) ==
    [k \in AgeKeys |->
        Cardinality({i \in 1..Len(ms) : age_group(ms[i].birth_date, current_year) = k})]

\* lines 468-491: the age_groups dict computed from the fetched documents
age_groups_of(ms, fetched, current_year) ==
    [k \in AgeKeys |->
        Cardinality({i \in fetched : age_group(ms[i].birth_date, current_year) = k})]

\* get_statistics, line 458: total.  seen is the members collection as this
\* first query finds it; the handler keeps no such value, it is recorded so
\* that C24 can tell the requests no write has interleaved with.
get_statistics(p) ==
    /\ req[p].pc = "get_statistics"
    /\ req' = [req EXCEPT ![p] =
                 [pc |-> "statistics_active", op |-> "get_statistics",
                  user |-> req[p].user, seen |-> members,
                  total |-> count_documents(AllMembers(members))]]
    /\ resp' = NoResponse
    /\ UNCHANGED <<store, nextUid, nextEid, nextFile>>

\* get_statistics, line 459: active
statistics_active(p) ==
    /\ req[p].pc = "statistics_active"
    /\ req' = [req EXCEPT ![p] =
                 [pc |-> "statistics_gender", op |-> "get_statistics",
                  user |-> req[p].user, seen |-> req[p].seen, total |-> req[p].total,
                  active |-> count_documents(ActiveMembers(members))]]
    /\ resp' = NoResponse
    /\ UNCHANGED <<store, nextUid, nextEid, nextFile>>

\* get_statistics, lines 461-462: male_count, female_count
statistics_gender(p) ==
    LET ActiveOfGender(ms, gender) == {i \in ActiveMembers(ms) : ms[i].gender = gender}
    IN
    /\ req[p].pc = "statistics_gender"
    /\ req' = [req EXCEPT ![p] =
                 [pc |-> "statistics_age_groups", op |-> "get_statistics",
                  user |-> req[p].user, seen |-> req[p].seen, total |-> req[p].total,
                  active |-> req[p].active,
                  male_count |-> count_documents(ActiveOfGender(members, "male")),
                  female_count |-> count_documents(ActiveOfGender(members, "female"))]]
    /\ resp' = NoResponse
    /\ UNCHANGED <<store, nextUid, nextEid, nextFile>>

\* python's list.sort(key=...): ascending by the keys k[i], equal keys in the
\* order they had (the sort is stable; with reverse=True it still is)
sort_by_key(s, k) ==
    [r \in 1..Len(s) |->
        s[CHOOSE i \in 1..Len(s) :
            Cardinality({j \in 1..Len(s) : k[j] < k[i] \/ (k[j] = k[i] /\ j < i)}) = r - 1]]

ServiceTypesCap == 100   \* service_types.find(...).to_list(100)

\* lines 497-500: the services of a type that have no end_date
ActiveServicesOfType(ss, type_id) ==
    {i \in 1..Len(ss) : ss[i].service_type_id = type_id /\ ss[i].end_date.text = "null"}

service_stats_top_all(stats) == stats

\* line 535: service_stats[:15]
service_stats_top(stats) == SubSeq(stats, 1, Min({15, Len(stats)}))

\* lines 494-506: one entry per service type that has active holders, sorted
\* by count, largest first
service_stats_of(sts, ss) ==
    LET HasHolders(entry) == entry.count > 0
    IN
    LET types == SubSeq(sts, 1, Min({ServiceTypesCap, Len(sts)}))
        counted == [i \in 1..Len(types) |->
                       [name |-> types[i].name_ukr,
                        count |-> count_documents(
                                      ActiveServicesOfType(ss, types[i].original_id))]]
        kept == SelectSeq(counted, HasHolders)
    IN  sort_by_key(kept, [i \in 1..Len(kept) |-> 0 - kept[i].count])

distribution_of_all(ms, refs, ref_type) ==
    LET r == find_ref(refs, ref_type)
        data == refs[r].data
        count(j) == count_documents({i \in AllMembers(ms) :
                                        ms[i][RefField(ref_type)] = data[j].key})
        kept == {j \in 1..Len(data) : count(j) > 0}
    IN  IF r = 0 THEN <<>>
        ELSE [l \in {data[j].label : j \in kept} |->
                 count(Max({j \in kept : data[j].label = l}))]

\* lines 509-515 and 518-524: the dict from label to count.  The items of the
\* table are visited in order and a count above zero is assigned under the
\* item's label, so a label holds the count that was assigned to it last.
distribution_of(ms, refs, ref_type) ==
    LET r == find_ref(refs, ref_type)
        data == refs[r].data
        count(j) == count_documents({i \in ActiveMembers(ms) :
                                        ms[i][RefField(ref_type)] = data[j].key})
        kept == {j \in 1..Len(data) : count(j) > 0}
    IN  IF r = 0 THEN <<>>
        ELSE [l \in {data[j].label : j \in kept} |->
                 count(Max({j \in kept : data[j].label = l}))]

StatisticsResponse_total(total, active, male_count, female_count, age_groups, service_stats, marital_stats, social_stats) ==
    [total_members |-> total,
     active_members |-> active,
     inactive_members |-> total,
     male_count |-> male_count,
     female_count |-> female_count,
     age_groups |-> age_groups,
     service_stats |-> service_stats_top(service_stats),
     marital_stats |-> marital_stats,
     social_stats |-> social_stats]

\* lines 526-538: the snapshot returned
StatisticsResponse(total, active, male_count, female_count, age_groups, service_stats, marital_stats, social_stats) ==
    [total_members |-> total,
     active_members |-> active,
     inactive_members |-> total - active,
     male_count |-> male_count,
     female_count |-> female_count,
     age_groups |-> age_groups,
     service_stats |-> service_stats_top(service_stats),
     marital_stats |-> marital_stats,
     social_stats |-> social_stats]

\* get_statistics, lines 468-506: the active members are fetched and bucketed
\* and the service types are counted (the collections read for the service
\* stats are written by no handler)
statistics_age_groups(p, Years) ==
    /\ req[p].pc = "statistics_age_groups"
    /\ \E current_year \in Years :
        LET fetched == to_list(ActiveMembers(members), ToListCap)
        IN  req' = [req EXCEPT ![p] =
                      [pc |-> "statistics_distributions", op |-> "get_statistics",
                       user |-> req[p].user, seen |-> req[p].seen,
                       total |-> req[p].total, active |-> req[p].active,
                       male_count |-> req[p].male_count,
                       female_count |-> req[p].female_count,
                       current_year |-> current_year,
                       age_groups |-> age_groups_of(members, fetched, current_year),
                       service_stats |-> service_stats_of(service_types, services)]]
    /\ resp' = NoResponse
    /\ UNCHANGED <<store, nextUid, nextEid, nextFile>>

\* get_statistics, lines 508-538: the marital and social distributions are
\* counted and the snapshot is returned
statistics_distributions(p) ==
    /\ req[p].pc = "statistics_distributions"
    /\ resp' = [op |-> "get_statistics", token |-> req[p].user.id, status |-> 200,
                body |-> StatisticsResponse(
                             req[p].total, req[p].active,
                             req[p].male_count, req[p].female_count,
                             req[p].age_groups, req[p].service_stats,
                             distribution_of(members, reference_data, "marital_status"),
                             distribution_of(members, reference_data, "social_status"))]
    /\ req' = [req EXCEPT ![p] = Idle]
    /\ UNCHANGED <<store, nextUid, nextEid, nextFile>>

Statistics(p, Years) ==
    \/ get_statistics(p) \/ statistics_active(p)
    \/ statistics_gender(p) \/ statistics_age_groups(p, Years)
    \/ statistics_distributions(p)

\* The stores the statistics are computed over
MaxStatMembers == 2

StatMember(id, active, bd) ==
    [NewMember(id, NoKeys @@ [pib |-> "a", gender |-> None, birth_date |-> bd])
        EXCEPT !.is_active = active]

\* every store of at most MaxStatMembers members, ids in order of creation
SmallStores ==
    LET StatBirthDates ==
            LET EmptyDate == [text |-> "empty", y |-> 0, m |-> 0, d |-> 0]
            IN  {NullDate, EmptyDate, JunkDate, IsoDate(2000, 5, 17), IsoDate(1960, 1, 1)}
    IN
    UNION { {[i \in 1..n |-> StatMember(i, f[i][1], f[i][2])] :
                f \in [1..n -> BOOLEAN \X StatBirthDates]} : n \in 0..MaxStatMembers }

\* a congregation of one member more than one to_list call returns
LargeStore == [i \in 1..(ToListCap + 1) |-> StatMember(i, TRUE, IsoDate(1960, 1, 1))]

\* datetime.now().year: years that put the two birth years on both sides of
\* every bucket border
StatYears == {2005, 2006, 2018, 2019, 2020, 2021, 2030, 2031}

\* more service types with holders than the snapshot lists
ManyTypeCount == 16

StatImports ==
    LET ManyServices ==
            [k \in 1..(ManyTypeCount + ManyTypeCount \div 2) |->
                Service(k, 1, IF k <= ManyTypeCount THEN k ELSE (k - ManyTypeCount) * 2, NullDate)]
    IN
    LET ManyTypes == [i \in 1..ManyTypeCount |-> ServiceType(i, ToString(i))]
    IN
    { [service_types |-> <<>>, services |-> <<>>],
      [service_types |-> FewTypes, services |-> FewServices],
      [service_types |-> ManyTypes, services |-> ManyServices] }

InitStats ==
    /\ users = << [id |-> 1, username |-> "alice", role |-> "admin"] >>
    /\ members \in SmallStores \cup {LargeStore}
    /\ events = <<>>
    /\ files = {}
    /\ \E imp \in StatImports :
          /\ service_types = imp.service_types
          /\ services = imp.services
          /\ imp.services # <<>> => members = <<>>
    /\ families = <<>>
    /\ children = <<>>
    /\ reference_data = <<>>
    /\ nextUid = 2
    /\ nextEid = 1
    /\ nextFile = 1
    /\ req = [p \in Procs |-> Idle]
    /\ resp = NoResponse

\* get_statistics on a store that no request writes
NextStats ==
    \E p \in {1} : Request(p, {"get_statistics"}, [none |-> {}]) \/ Statistics(p, StatYears)

SpecStats == InitStats /\ [][NextStats]_vars

----------------------------------------------------------------------------
\* Upcoming birthdays

\* A naive datetime is [y, m, d, tod]: the calendar day and the time of day in
\* ticks, TicksPerDay ticks a day; tod 0 is 00:00:00 exactly.
TicksPerDay == 2

DateTime(y, m, d, tod) == [y |-> y, m |-> m, d |-> d, tod |-> tod]

IsLeap(y) == (y % 4 = 0 /\ y % 100 # 0) \/ y % 400 = 0

DaysInMonth(y, m) ==
    IF m = 2 THEN (IF IsLeap(y) THEN 29 ELSE 28)
    ELSE IF m \in {4, 6, 9, 11} THEN 30 ELSE 31

\* date.toordinal()
toordinal(y, m, d) ==
    LET DaysBeforeMonth ==
            <<0, 31, 59, 90, 120, 151, 181, 212, 243, 273, 304, 334>>[m]
                + (IF m > 2 /\ IsLeap(y) THEN 1 ELSE 0)
    IN
    LET DaysBeforeYear == (y - 1) * 365 + (y - 1) \div 4 - (y - 1) \div 100 + (y - 1) \div 400
    IN  DaysBeforeYear + DaysBeforeMonth + d

\* a datetime as ticks since the start of day 0
Ticks(dt) == toordinal(dt.y, dt.m, dt.d) * TicksPerDay + dt.tod

\* datetime.fromisoformat(bd): a date string parses to midnight of that day
fromisoformat(bd) == DateTime(bd.y, bd.m, bd.d, 0)

\* lines 828-831: this year's birthday, next year's if it is before now; the
\* result is meaningful when ThisYearBdDefined
this_year_bd(bd_date, today) ==
    IF Ticks([bd_date EXCEPT !.y = today.y]) < Ticks(today)
    THEN [bd_date EXCEPT !.y = today.y + 1]
    ELSE [bd_date EXCEPT !.y = today.y]

ThisYearBdDefined(bd_date, today) ==
    \* bd_date.replace(year=...) raises ValueError when the year has no such day
    LET CanReplaceYear(dt, y) == dt.d <= DaysInMonth(y, dt.m)
    IN
    /\ CanReplaceYear(bd_date, today.y)
    /\ (Ticks([bd_date EXCEPT !.y = today.y]) < Ticks(today))
          => CanReplaceYear(bd_date, today.y + 1)

\* line 833: (this_year_bd - today).days, timedelta.days rounding down
days_until_of(bd_date, today) ==
    (Ticks(this_year_bd(bd_date, today)) - Ticks(today)) \div TicksPerDay

within_days_any(days_until, days) == TRUE

\* line 835
within_days(days_until, days) == 0 <= days_until /\ days_until <= days

\* lines 813-816: the query's two "$ne" share one dict key, so the filter sent
\* is {"is_active": True, "birth_date": {"$ne": ""}}
WithBirthDate(ms) ==
    {i \in 1..Len(ms) : ms[i].is_active /\ ms[i].birth_date.text # "empty"}

\* lines 818-851: the entries, ascending by days_until.  A birth_date that is
\* None is skipped (if bd), one that does not parse or has no such day in the
\* year raises and is skipped (except: continue).
upcoming_of(ms, today, days) ==
    LET fetched == in_order(to_list(WithBirthDate(ms), ToListCap))
        parsed(i) == /\ ms[i].birth_date.text = "iso"
                     /\ ThisYearBdDefined(fromisoformat(ms[i].birth_date), today)
        kept(i) == /\ parsed(i)
                   /\ within_days(days_until_of(fromisoformat(ms[i].birth_date), today),
                                  days)
        listed == SelectSeq(fetched, kept)
        upcoming ==
            [r \in 1..Len(listed) |->
                LET m == ms[listed[r]]
                    bd_date == fromisoformat(m.birth_date)
                    next == this_year_bd(bd_date, today)
                IN  [member_id |-> m.original_id,
                     pib |-> m.pib,
                     birth_date |-> m.birth_date,
                     birthday_date |-> [y |-> next.y, m |-> next.m, d |-> next.d],
                     days_until |-> days_until_of(bd_date, today),
                     age |-> next.y - bd_date.y]]
    IN  sort_by_key(upcoming, [r \in 1..Len(upcoming) |-> upcoming[r].days_until])

\* get_upcoming_birthdays, lines 810-851; the response's Date header carries
\* the moment the handler ran
get_upcoming_birthdays(p, Nows) ==
    /\ req[p].pc = "get_upcoming_birthdays"
    /\ \E today \in Nows :
          resp' = [op |-> "get_upcoming_birthdays", token |-> req[p].user.id,
                   status |-> 200, date |-> today,
                   body |-> upcoming_of(members, today, req[p].args.days)]
    /\ req' = [req EXCEPT ![p] = Idle]
    /\ UNCHANGED <<store, nextUid, nextEid, nextFile>>

\* every store of at most MaxStatMembers members, ids in order of creation
BirthdayStores ==
    LET BirthDates ==
            {NullDate, JunkDate, IsoDate(1990, 5, 16), IsoDate(1990, 5, 17), IsoDate(1990, 5, 18),
             IsoDate(2000, 1, 1), IsoDate(1992, 2, 29)}
    IN
    UNION { {[i \in 1..n |-> StatMember(i, f[i][1], f[i][2])] :
                f \in [1..n -> BOOLEAN \X BirthDates]} : n \in 0..MaxStatMembers }

\* datetime.now(): midnight and midday of a birthday, the end of a year, the
\* end of February in a leap year and in the year before one
Nows ==
    {DateTime(2026, 5, 17, 0), DateTime(2026, 5, 17, 1), DateTime(2026, 12, 31, 1),
     DateTime(2027, 2, 28, 1), DateTime(2028, 2, 29, 1)}

InitBirthdays ==
    /\ users = << [id |-> 1, username |-> "alice", role |-> "admin"] >>
    /\ members \in BirthdayStores
    /\ events = <<>>
    /\ files = {}
    /\ NoImport
    /\ nextUid = 2
    /\ nextEid = 1
    /\ nextFile = 1
    /\ req = [p \in Procs |-> Idle]
    /\ resp = NoResponse

\* get_upcoming_birthdays on a store that no request writes
NextBirthdays ==
    LET BirthdayInputs == [days |-> {1, 7, 30}]
    IN
    \E p \in {1} :
        \/ Request(p, {"get_upcoming_birthdays"}, BirthdayInputs)
        \/ get_upcoming_birthdays(p, Nows)

SpecBirthdays == InitBirthdays /\ [][NextBirthdays]_vars

----------------------------------------------------------------------------
\* Birthdays of a month

\* cursor.to_list(n) of a cursor that yields the list found: its first n
first_to_list(found, n) == SubSeq(found, 1, IF Len(found) < n THEN Len(found) ELSE n)

\* list.sort(key=lambda x: x["day"]): a stable sort, so the entries of day 1 in
\* the order they had, then those of day 2, and so on up to day 31
RECURSIVE sort_by_day_from(_, _)
sort_by_day_from(s, d) ==
    LET OfDay(e) == e.day = d
    IN  IF d > 31 THEN <<>> ELSE SelectSeq(s, OfDay) \o sort_by_day_from(s, d + 1)

\* lines 786-789: the age today, a year less before this year's birthday
age_on(today, bd_date) ==
    IF today.m < bd_date.m \/ (today.m = bd_date.m /\ today.d < bd_date.d)
    THEN today.y - bd_date.y - 1
    ELSE today.y - bd_date.y

\* lines 768-806: the entries, ascending by day.  The query is the one of
\* get_upcoming_birthdays; a birth_date that is None is skipped (if bd), one
\* that does not parse raises and is skipped (except: continue).
birthdays_of(ms, today, month) ==
    LET sort_by_day(s) == sort_by_day_from(s, 1)
    IN
    LET queried(i) == ms[i].is_active /\ ms[i].birth_date.text # "empty"
        fetched == first_to_list(SelectSeq([i \in 1..Len(ms) |-> i], queried), ToListCap)
        kept(i) == /\ ms[i].birth_date.text = "iso"
                   /\ (month # None => fromisoformat(ms[i].birth_date).m = month[1])
        listed == SelectSeq(fetched, kept)
    IN  sort_by_day([r \in 1..Len(listed) |->
                        LET m == ms[listed[r]]
                            bd_date == fromisoformat(m.birth_date)
                        IN  [member_id |-> m.original_id,
                             pib |-> m.pib,
                             birth_date |-> m.birth_date,
                             day |-> bd_date.d,
                             month |-> bd_date.m,
                             age |-> age_on(today, bd_date)]])

\* get_birthdays, lines 762-808; the response's Date header carries the moment
\* the handler ran
get_birthdays(p, Times) ==
    /\ req[p].pc = "get_birthdays"
    /\ \E today \in Times :
          resp' = [op |-> "get_birthdays", token |-> req[p].user.id,
                   status |-> 200, date |-> today,
                   body |-> birthdays_of(members, today, req[p].args.month)]
    /\ req' = [req EXCEPT ![p] = Idle]
    /\ UNCHANGED <<store, nextUid, nextEid, nextFile>>

InitBirthdayList ==
    /\ users = << [id |-> 1, username |-> "alice", role |-> "admin"] >>
    /\ members \in BirthdayStores \cup {LargeStore}
    /\ events = <<>>
    /\ files = {}
    /\ NoImport
    /\ nextUid = 2
    /\ nextEid = 1
    /\ nextFile = 1
    /\ req = [p \in Procs |-> Idle]
    /\ resp = NoResponse

\* get_birthdays on a store that no request writes
NextBirthdayList ==
    \* month: not given, or one of 1..12 (Query(None, ge=1, le=12))
    LET BirthdayListInputs == [months |-> {None, Some(1), Some(5)}]
    IN
    \E p \in {1} :
        \/ Request(p, {"get_birthdays"}, BirthdayListInputs)
        \/ get_birthdays(p, Nows)

SpecBirthdayList == InitBirthdayList /\ [][NextBirthdayList]_vars

----------------------------------------------------------------------------
\* Calendar of a month

EventsCap == 100   \* events.find(...).to_list(100)

\* the order of two date strings "YYYY-MM-DD" as strings ("$gte", "$lt")
DateBefore(a, b) ==
    \/ a.y < b.y
    \/ a.y = b.y /\ a.m < b.m
    \/ a.y = b.y /\ a.m = b.m /\ a.d < b.d

\* lines 864-867: the events of the month, in store order, at most EventsCap
events_of_month(es, year, month) ==
    \* lines 859-862
    LET end_date ==
            IF month = 12 THEN IsoDate(year + 1, 1, 1) ELSE IsoDate(year, month + 1, 1)
    IN
    \* f"{year}-{month:02d}-01" and the first day of the next month, as dates
    LET start_date == IsoDate(year, month, 1)
    IN
    LET in_range(k) == /\ ~DateBefore(es[k].event_date, start_date)
                       /\ DateBefore(es[k].event_date, end_date)
    IN  first_to_list(SelectSeq([k \in 1..Len(es) |-> k], in_range), EventsCap)

\* lines 870-891: the birthdays of the month, in store order
birthdays_of_month(ms, year, month) ==
    LET queried(i) == ms[i].is_active /\ ms[i].birth_date.text # "empty"
        fetched == first_to_list(SelectSeq([i \in 1..Len(ms) |-> i], queried), ToListCap)
        kept(i) == /\ ms[i].birth_date.text = "iso"
                   /\ fromisoformat(ms[i].birth_date).m = month
        listed == SelectSeq(fetched, kept)
    IN  [r \in 1..Len(listed) |->
            LET m == ms[listed[r]]
                bd_date == fromisoformat(m.birth_date)
            IN  [member_id |-> m.original_id,
                 pib |-> m.pib,
                 day |-> bd_date.d,
                 age |-> year - bd_date.y,
                 photo_url |-> m.photo_url]]

\* lines 894-906: the dict from day to the events and the birthdays of the day
calendar_data_of(es, fetched, birthdays) ==
    LET event_day(k) == es[k].event_date.d
        days == {event_day(fetched[r]) : r \in 1..Len(fetched)}
                    \cup {birthdays[r].day : r \in 1..Len(birthdays)}
    IN  [day \in days |->
            LET OnDay(k) == event_day(k) = day
                BornOnDay(b) == b.day = day
                on_day == SelectSeq(fetched, OnDay)
            IN  [events |-> [r \in 1..Len(on_day) |-> es[on_day[r]]],
                 birthdays |-> SelectSeq(birthdays, BornOnDay)]]

\* get_calendar_data, lines 855-867: the events of the month
get_calendar_data(p) ==
    /\ req[p].pc = "get_calendar_data"
    /\ req' = [req EXCEPT ![p] =
                 [pc |-> "calendar_birthdays", op |-> "get_calendar_data",
                  args |-> req[p].args, user |-> req[p].user,
                  events |-> LET fetched == events_of_month(events, req[p].args.year,
                                                            req[p].args.month)
                             IN  [r \in 1..Len(fetched) |-> events[fetched[r]]]]]
    /\ resp' = NoResponse
    /\ UNCHANGED <<store, nextUid, nextEid, nextFile>>

\* get_calendar_data, lines 870-912: the birthdays of the month, the grouping
calendar_birthdays(p) ==
    /\ req[p].pc = "calendar_birthdays"
    /\ LET a == req[p].args
           es == req[p].events
       IN  resp' = [op |-> "get_calendar_data", token |-> req[p].user.id, status |-> 200,
                    body |-> [year |-> a.year, month |-> a.month,
                              data |-> calendar_data_of(
                                           es, [r \in 1..Len(es) |-> r],
                                           birthdays_of_month(members, a.year, a.month))]]
    /\ req' = [req EXCEPT ![p] = Idle]
    /\ UNCHANGED <<store, nextUid, nextEid, nextFile>>

MaxCalEvents == 2

\* every store of at most MaxCalEvents events, ids in order of creation
EventStores ==
    LET EventDates ==
            {IsoDate(2026, 5, 17), IsoDate(2026, 5, 31), IsoDate(2026, 6, 1),
             IsoDate(2026, 12, 31), IsoDate(2027, 1, 1)}
    IN
    UNION { {[k \in 1..n |-> EventDoc(k, "t", f[k], 1)] : f \in [1..n -> EventDates]} :
            n \in 0..MaxCalEvents }

InitCalendar ==
    \* a month with one event more than one to_list call returns
    LET ManyEvents == [k \in 1..(EventsCap + 1) |-> EventDoc(k, "t", IsoDate(2026, 5, 17), 1)]
    IN
    /\ users = << [id |-> 1, username |-> "alice", role |-> "admin"] >>
    /\ members \in BirthdayStores
    /\ events \in EventStores \cup (IF members = <<>> THEN {ManyEvents} ELSE {})
    /\ files = {}
    /\ NoImport
    /\ nextUid = 2
    /\ nextEid = Len(events) + 1
    /\ nextFile = 1
    /\ req = [p \in Procs |-> Idle]
    /\ resp = NoResponse

\* get_calendar_data on a store that no request writes
NextCalendar ==
    LET CalendarInputs == [years |-> {2026}, months |-> {5, 12}]
    IN
    \E p \in {1} :
        \/ Request(p, {"get_calendar_data"}, CalendarInputs)
        \/ get_calendar_data(p) \/ calendar_birthdays(p)

SpecCalendar == InitCalendar /\ [][NextCalendar]_vars

----------------------------------------------------------------------------
\* The member view over an imported store

MaxFamilies == 2    \* family documents imported

\* two imported members, 1 and 2
ViewMembers ==
    << NewMember(1, NoKeys @@
                    [pib |-> "a", gender |-> Some("male"), birth_date |-> NullDate]),
       NewMember(2, NoKeys @@
                    [pib |-> "b", gender |-> Some("female"), birth_date |-> NullDate]) >>

FamilyStores ==
    \* id_cholovik / id_drujina of a family row: absent, or the id of an anketa
    \* row; the import does not look the row up (3 is an id no member has)
    LET FamilySides == {None, Some(1), Some(2), Some(3)}
    IN
    UNION { {[k \in 1..n |-> Family(k, f[k][1], f[k][2])] :
                f \in [1..n -> FamilySides \X FamilySides]} : n \in 0..MaxFamilies }

InitView ==
    \* one service more for member 1 than one to_list call returns
    LET LongServices == [k \in 1..(ServicesCap + 1) |-> Service(k, 1, 1, NullDate)]
    IN
    /\ users = << [id |-> 1, username |-> "alice", role |-> "admin"] >>
    /\ members = ViewMembers
    /\ events = <<>>
    /\ files = {}
    /\ service_types = FewTypes
    /\ families \in FamilyStores
    /\ services \in {FewServices} \cup (IF families = <<>> THEN {LongServices} ELSE {})
    /\ children = ViewChildren
    /\ reference_data = <<>>
    /\ nextUid = 2
    /\ nextEid = 1
    /\ nextFile = 1
    /\ req = [p \in Procs |-> Idle]
    /\ resp = NoResponse

\* get_member on a store that no request writes
NextView ==
    LET ViewInputs == [member_ids |-> 1..3]
    IN
    \E p \in {1} :
        Request(p, {"get_member"}, ViewInputs) \/ get_member(p) \/ get_member_spouse(p)

SpecView == InitView /\ [][NextView]_vars

----------------------------------------------------------------------------
\* The marital and social distributions over an imported store

MaxDistMembers == 3

\* the tables the import wrote: none, tables whose labels differ, and a
\* marital table in which two rows have the same label
DistributionTables ==
    { <<>>,
      << ReferenceData("marital_status", << Item("1", "married"), Item("2", "single") >>),
         ReferenceData("social_status", << Item("1", "worker"), Item("3", "student") >>) >>,
      << ReferenceData("social_status", << Item("1", "worker") >>),
         ReferenceData("marital_status", << Item("1", "married"), Item("2", "married") >>) >> }

InitDistributions ==
    LET DistributionStores ==
            LET DistMember(id, active, marital, social) ==
                    [StatMember(id, active, NullDate)
                        EXCEPT !.marital_status_id = marital, !.social_status_id = social]
            IN
            LET SocialKeys == {"1", "9"}
            IN
            \* id_simeyniy / id_socialniy of an anketa row: blank, or a key ("9" is a key
            \* no table has)
            LET MaritalKeys == {"", "1", "2"}
            IN
            UNION { {[i \in 1..n |-> DistMember(i, f[i][1], f[i][2], f[i][3])] :
                        f \in [1..n -> BOOLEAN \X MaritalKeys \X SocialKeys]} :
                    n \in 0..MaxDistMembers }
    IN
    /\ users = << [id |-> 1, username |-> "alice", role |-> "admin"] >>
    /\ members \in DistributionStores
    /\ events = <<>>
    /\ files = {}
    /\ services = <<>>
    /\ service_types = <<>>
    /\ families = <<>>
    /\ children = <<>>
    /\ reference_data \in DistributionTables
    /\ nextUid = 2
    /\ nextEid = 1
    /\ nextFile = 1
    /\ req = [p \in Procs |-> Idle]
    /\ resp = NoResponse

\* get_statistics on a store that no request writes
NextDistributions ==
    \E p \in {1} : Request(p, {"get_statistics"}, [none |-> {}]) \/ Statistics(p, {2026})

SpecDistributions == InitDistributions /\ [][NextDistributions]_vars

----------------------------------------------------------------------------
\* Statistics while members are created and deactivated

StatWriteInputs ==
    [marital_status_ids |-> {None},
     social_status_ids |-> {None},
     education_ids |-> {None},
     profession_ids |-> {None},
     pibs |-> {"b"},
     genders |-> {Some("female")},
     birth_dates |-> {NullDate},
     member_ids |-> 1..MaxMembers]

\* one admin, one active member
InitStatWrites ==
    /\ users = << [id |-> 1, username |-> "alice", role |-> "admin"] >>
    /\ members = << StatMember(1, TRUE, IsoDate(2000, 5, 17)) >>
    /\ events = <<>>
    /\ files = {}
    /\ NoImport
    /\ nextUid = 2
    /\ nextEid = 1
    /\ nextFile = 1
    /\ req = [p \in Procs |-> Idle]
    /\ resp = NoResponse

\* get_statistics requests of one client, interleaving with the create_member
\* and delete_member requests of the others
NextStatWrites ==
    \/ \E p \in {1} :
          Request(p, {"get_statistics"}, StatWriteInputs) \/ Statistics(p, {2026})
    \/ \E p \in Procs \ {1} :
          \/ Request(p, {"create_member", "delete_member"}, StatWriteInputs)
          \/ create_member(p) \/ create_member_insert(p) \/ delete_member(p)

SpecStatWrites == InitStatWrites /\ [][NextStatWrites]_vars

----------------------------------------------------------------------------
\* Photo uploads and deletions that can be cut short

\* The server process dies (or the request is cancelled) while a photo request
\* is between two of its steps: the request is abandoned where it is, no
\* response is sent, and what it has written stays.
crash(p) ==
    /\ req[p].pc \in {"upload_write", "upload_update",
                      "delete_photo_unlink", "delete_photo_update"}
    /\ req' = [req EXCEPT ![p] = Idle]
    /\ resp' = NoResponse
    /\ UNCHANGED <<store, nextUid, nextEid, nextFile>>

\* one admin, one member without a photo
InitPhotos ==
    /\ users = << [id |-> 1, username |-> "alice", role |-> "admin"] >>
    /\ members = << NewMember(1, NoKeys @@ [pib |-> "a", gender |-> None,
                                            birth_date |-> NullDate]) >>
    /\ events = <<>>
    /\ files = {}
    /\ NoImport
    /\ nextUid = 2
    /\ nextEid = 1
    /\ nextFile = 1
    /\ req = [p \in Procs |-> Idle]
    /\ resp = NoResponse

\* the photo routes, requests interleaving and cut short
NextPhotos ==
    LET PhotoInputs == [member_ids |-> 1..MaxMembers]
    IN  \E p \in Procs : Request(p, PhotoOps, PhotoInputs) \/ Photos(p) \/ crash(p)

SpecPhotos == InitPhotos /\ [][NextPhotos]_vars

----------------------------------------------------------------------------
\* Members created over the reference tables

\* the tables in the store: none (the import has not run), all four, or some
ReferenceTables ==
    { <<>>,
      << ReferenceData("marital_status", << Item("1", "married"), Item("2", "single") >>),
         ReferenceData("social_status", << Item("1", "worker") >>),
         ReferenceData("education", << Item("2", "school") >>),
         ReferenceData("profession", <<>>) >>,
      << ReferenceData("marital_status", << Item("1", "married") >>),
         ReferenceData("education", <<>>) >> }

ReferenceInputs ==
    [marital_status_ids |-> {None, Some(""), Some("1"), Some("9")},
     social_status_ids |-> {None, Some("1")},
     education_ids |-> {Some("2")},
     profession_ids |-> {None, Some("1")},
     pibs |-> {"a"},
     genders |-> {None},
     birth_dates |-> {NullDate}]

InitReferences ==
    /\ users = << [id |-> 1, username |-> "alice", role |-> "admin"] >>
    /\ members = <<>>
    /\ events = <<>>
    /\ files = {}
    /\ services = <<>>
    /\ service_types = <<>>
    /\ families = <<>>
    /\ children = <<>>
    /\ reference_data \in ReferenceTables
    /\ nextUid = 2
    /\ nextEid = 1
    /\ nextFile = 1
    /\ req = [p \in Procs |-> Idle]
    /\ resp = NoResponse

\* create_member, one request at a time
NextReferences ==
    \E p \in {1} :
        \/ Request(p, {"create_member"}, ReferenceInputs)
        \/ create_member(p) \/ create_member_insert(p)

SpecReferences == InitReferences /\ [][NextReferences]_vars

----------------------------------------------------------------------------
\* The gender of members created and updated

\* gender is a str in MemberCreate and MemberUpdate: any string is accepted
GenderInputs ==
    [marital_status_ids |-> {None},
     social_status_ids |-> {None},
     education_ids |-> {None},
     profession_ids |-> {None},
     pibs |-> {"a"},
     genders |-> {None, Some("male"), Some("female"), Some("other")},
     birth_dates |-> {NullDate},
     member_ids |-> 1..MaxMembers,
     updates |-> { NoUpdate,
                   [NoUpdate EXCEPT !.pib = Some("b")],
                   [NoUpdate EXCEPT !.gender = Some("male")],
                   [NoUpdate EXCEPT !.gender = Some("female")],
                   [NoUpdate EXCEPT !.gender = Some("other")] }]

\* create_member and update_member, one request at a time
NextGender ==
    \E p \in {1} :
        \/ Request(p, {"create_member", "update_member"}, GenderInputs)
        \/ create_member(p) \/ create_member_insert(p) \/ update_member(p)

SpecGender == InitMembers /\ [][NextGender]_vars

----------------------------------------------------------------------------
\* Requests after a role change or a deletion

RoleInputs ==
    [marital_status_ids |-> {None},
     social_status_ids |-> {None},
     education_ids |-> {None},
     profession_ids |-> {None},
     pibs |-> {"a"},
     genders |-> {None},
     birth_dates |-> {NullDate},
     role_params |-> {"admin", "deacon", "user"},
     user_ids |-> 1..MaxUid]

\* two registered users, the first (admin) and one registered as user, each
\* holding a token issued at registration
InitRoles ==
    /\ users = << [id |-> 1, username |-> "alice", role |-> "admin"],
                  [id |-> 2, username |-> "bob", role |-> "user"] >>
    /\ members = <<>>
    /\ events = <<>>
    /\ files = {}
    /\ NoImport
    /\ nextUid = 3
    /\ nextEid = 1
    /\ nextFile = 1
    /\ req = [p \in Procs |-> Idle]
    /\ resp = NoResponse

RoleOps == {"update_user_role", "delete_user", "get_users", "create_member"}

\* worker 1 serves the role changes and deletions, the other workers an admin
\* route and an editor route, the requests interleaving
NextRoles ==
    \/ Request(1, {"update_user_role", "delete_user"}, RoleInputs)
    \/ update_user_role(1) \/ delete_user(1)
    \/ \E p \in Procs \ {1} :
          \/ Request(p, {"get_users", "create_member"}, RoleInputs)
          \/ get_users(p)
          \/ create_member(p) \/ create_member_insert(p)

SpecRoles == InitRoles /\ [][NextRoles]_vars

----------------------------------------------------------------------------
\* Properties

Range(s) == {s[i] : i \in 1..Len(s)}

\* the step in which worker p sends the response of its request
Responds(p, op, status) ==
    /\ req[p].pc # "idle"
    /\ req[p].op = op
    /\ req'[p].pc = "idle"
    /\ resp'.op = op
    /\ resp'.status = status

\* C1: with one request at a time, a register that finds the users collection
\* empty inserts a user with role admin whatever role it asked for, and a
\* register on a non-empty collection that names no role inserts role user.
C1_FirstUserAdmin ==
    [][\A p \in Procs :
         Responds(p, "register", 200) =>
            /\ Len(users') = Len(users) + 1
            /\ users = <<>> => users'[Len(users')].role = "admin"
            /\ (users # <<>> /\ req[p].args.role_in = None)
                  => users'[Len(users')].role = "user"]_vars

C1_Witness ==
    /\ Len(users) = 2
    /\ users[1].role = "admin"
    /\ users[2].role = "user"
    /\ resp = Response("register", 0, 200)

\* C2: a registration is force-promoted (stored as admin though it asked for
\* another role) only when it inserts the very first user document ever.
C2_PromotionOnce ==
    [][\A p \in Procs :
         ( /\ Responds(p, "register", 200)
           /\ users'[Len(users')].role = "admin"
           /\ UserCreate_role(req[p].args.role_in) # "admin" )
         => nextUid = 1]_vars

\* C3: no two member documents share an original_id, and no step changes the
\* original_id of an existing member document.
C3_OriginalIdUniqueImmutable ==
    [][ /\ \A i, j \in 1..Len(members') :
              i # j => members'[i].original_id # members'[j].original_id
        /\ \A i \in 1..Len(members) :
              /\ i <= Len(members')
              /\ members'[i].original_id = members[i].original_id ]_vars

\* C4: with one request at a time, create_member gives the new member the
\* largest original_id of all members (active or not) plus one, 1 when there are
\* none, so an id above every id already assigned.
C4_NextOriginalId ==
    [][\A p \in Procs :
         Responds(p, "create_member", 200) =>
            /\ Len(members') = Len(members) + 1
            /\ members'[Len(members')].original_id =
                  (IF members = <<>> THEN 1
                   ELSE Max({members[i].original_id : i \in 1..Len(members)}) + 1)
            /\ \A i \in 1..Len(members) :
                  members'[Len(members')].original_id > members[i].original_id]_vars

C4_Witness ==
    /\ Len(members) = 2
    /\ ~members[1].is_active
    /\ members[2].original_id = 2
    /\ resp.op = "create_member"
    /\ resp.status = 200

\* the roles the specification requires of each operation
ClaimedRoles(op) ==
    CASE op \in {"create_member", "update_member", "upload_member_photo",
                 "delete_member_photo", "create_event", "update_event", "delete_event"}
            -> {"admin", "presbyter", "deacon"}
      [] op \in {"delete_member", "get_users", "update_user_role", "delete_user"}
            -> {"admin"}
      [] OTHER -> {"admin", "presbyter", "deacon", "user"}

\* C5: a request whose token names a stored user whose role lacks the
\* capability of the operation is answered 403 and leaves the store unchanged,
\* and every step of a handler is taken for a user whose role has it.
C5_ForbiddenChangesNothing ==
    [][ /\ (resp' # NoResponse /\ resp'.op # "register") =>
              LET u == get_current_user(resp'.token)
              IN  (u # NoUser /\ u.role \notin ClaimedRoles(resp'.op))
                     => (resp'.status = 403 /\ store' = store)
        /\ \A p \in Procs :
              (req[p].pc # "idle" /\ req[p].op # "register" /\ req'[p] # req[p])
                 => req[p].user.role \in ClaimedRoles(req[p].op) ]_vars

C5_Witness ==
    /\ resp.op = "create_member"
    /\ resp.status = 403
    /\ get_current_user(resp.token).role = "user"
    /\ events # <<>>

\* C6: a member's is_active goes from true to false only in a step of a request
\* made by a user whose role is admin.
C6_DeactivationByAdmin ==
    [][\A i \in 1..Len(members) :
         (members[i].is_active /\ ~members'[i].is_active) =>
            \E p \in Procs :
                /\ req[p].pc # "idle"
                /\ req'[p].pc = "idle"
                /\ req[p].user.role = "admin"]_vars

\* C7: with one request at a time, when delete_member(id) answers 200 the
\* member document it selected has is_active false and the same original_id,
\* get_member(id) selects that document, and no page of get_members with
\* active_only true lists it.
C7_DeactivatedMember ==
    [][\A p \in Procs :
         Responds(p, "delete_member", 200) =>
            LET id == req[p].args.member_id
                i == MemberIdx(members, id)
            IN  /\ i # 0
                /\ ~members'[i].is_active
                /\ members'[i].original_id = id
                /\ get_member_doc(members', id) = i
                /\ \A a \in ArgsOf("get_members", MemberSeqInputs) :
                      a.active_only => i \notin Range(get_members_page(members', a))]_vars

C7_Witness ==
    /\ resp.op = "delete_member"
    /\ resp.status = 200
    /\ Len(members) = 2
    /\ ~members[1].is_active
    /\ members[2].is_active

\* C8: no two user documents share a username.
C8_UsernameUnique ==
    \A i, j \in 1..Len(users) : i # j => users[i].username # users[j].username

\* C9: every user document's role is admin, presbyter, deacon or user.
C9_RolesValid ==
    \A i \in 1..Len(users) : users[i].role \in {"admin", "presbyter", "deacon", "user"}

RECURSIVE SumOver(_, _)
SumOver(f, S) ==
    IF S = {} THEN 0
    ELSE LET k == CHOOSE x \in S : TRUE IN f[k] + SumOver(f, S \ {k})

\* C10: in a statistics snapshot computed with no write in between, the values
\* of age_groups add up to active_members.
C10_AgeGroupsSum ==
    (resp.op = "get_statistics" /\ resp.status = 200) =>
        SumOver(resp.body.age_groups, DOMAIN resp.body.age_groups)
            = resp.body.active_members

\* a statistics snapshot has been returned
StatisticsReturned == resp.op = "get_statistics" /\ resp.status = 200

\* C11: in every statistics snapshot, inactive_members is total_members minus
\* active_members.
C11_InactiveIsDifference ==
    StatisticsReturned =>
        resp.body.inactive_members = resp.body.total_members - resp.body.active_members

C11_Witness ==
    /\ StatisticsReturned
    /\ resp.body.total_members = 2
    /\ resp.body.active_members = 1
    /\ resp.body.inactive_members = 1

\* the age ranges the specification gives each key, [lo, hi)
ClaimedRange(k) ==
    CASE k = "0-18" -> [lo |-> 0, hi |-> 19]
      [] k = "19-30" -> [lo |-> 19, hi |-> 31]
      [] k = "31-45" -> [lo |-> 31, hi |-> 46]
      [] k = "46-60" -> [lo |-> 46, hi |-> 61]
      [] k = "60+" -> [lo |-> 61, hi |-> 100000]

\* the key the specification counts a birth date under in the given year
ClaimedKey(bd, year) ==
    IF bd.text # "iso" THEN "unknown"
    ELSE CHOOSE k \in AgeKeys \ {"unknown"} :
            ClaimedRange(k).lo <= year - bd.y /\ year - bd.y < ClaimedRange(k).hi

\* C12: a statistics snapshot computed with no write in between has all six
\* keys in age_groups, and under each key the number of active members whose
\* age (current year minus birth year) lies in the key's range, "unknown"
\* counting the active members with a missing or unparseable birth date.
C12_AgeBucketing ==
    StatisticsReturned =>
        /\ DOMAIN resp.body.age_groups = AgeKeys
        /\ \E year \in StatYears : \A k \in AgeKeys :
              resp.body.age_groups[k] =
                 Cardinality({i \in ActiveMembers(members) :
                                 ClaimedKey(members[i].birth_date, year) = k})

\* C13: the service_stats list of a statistics snapshot has at most 15 entries
\* and its counts never increase along the list.
C13_ServiceStatsSorted ==
    StatisticsReturned =>
        LET stats == resp.body.service_stats
        IN  /\ Len(stats) <= 15
            /\ \A i, j \in 1..Len(stats) : i < j => stats[i].count >= stats[j].count

C13_Witness ==
    /\ StatisticsReturned
    /\ Len(resp.body.service_stats) = 15
    /\ resp.body.service_stats[1].count > resp.body.service_stats[15].count

\* get_member has returned the view of a member
ViewReturned == resp.op = "get_member" /\ resp.status = 200

\* the view carries a spouse whose original_id is n
HasSpouse(n) ==
    /\ "spouse" \in DOMAIN resp.body
    /\ resp.body.spouse # None
    /\ resp.body.spouse[1].original_id = n

\* C14: the view of a member who is husband_id of a family record whose
\* wife_id is set carries a spouse with that wife_id as original_id, and the
\* view of a member who is wife_id of a family record whose husband_id is set
\* carries a spouse with that husband_id as original_id.
C14_SpouseOfFamily ==
    ViewReturned =>
        \A k \in 1..Len(families) :
            LET f == families[k]
                id == resp.body.member.original_id
            IN  /\ (f.husband_id = Some(id) /\ f.wife_id # None) => HasSpouse(f.wife_id[1])
                /\ (f.wife_id = Some(id) /\ f.husband_id # None)
                       => HasSpouse(f.husband_id[1])

\* the view carries the spouse the member with original_id n gives: that
\* member's original_id, or null when no member has it
SpouseIs(n) ==
    IF \E i \in 1..Len(members) : members[i].original_id = n
    THEN HasSpouse(n)
    ELSE "spouse" \in DOMAIN resp.body /\ resp.body.spouse = None

\* C14 as amended: the same of the first family record, in store order, that
\* names the member as husband_id or wife_id, when a member with the other
\* side's id exists; when none does the spouse is null.
C14_SpouseOfFirstFamily ==
    ViewReturned =>
        LET id == resp.body.member.original_id
            named == {k \in 1..Len(families) :
                         families[k].husband_id = Some(id) \/ families[k].wife_id = Some(id)}
        IN  named # {} =>
               LET f == families[Min(named)]
               IN  /\ (f.husband_id = Some(id) /\ f.wife_id # None) => SpouseIs(f.wife_id[1])
                   /\ (f.wife_id = Some(id) /\ f.husband_id # None)
                          => SpouseIs(f.husband_id[1])

C14_Witness ==
    /\ ViewReturned
    /\ resp.body.member.original_id = 2
    /\ Len(families) = 2
    /\ families[1] = Family(1, Some(1), Some(2))
    /\ HasSpouse(1)

\* C20: the services list of a member's view has one summary for each service
\* record whose member_original_id is the member's id, in the order of the
\* records in the store, carrying the record's dates, with is_active true
\* exactly when the record's end_date is null.
C20_ServiceSummaries ==
    ViewReturned =>
        LET id == resp.body.member.original_id
            recs == in_order({i \in 1..Len(services) :
                                 services[i].member_original_id = id})
            listed == resp.body.services
        IN  /\ Len(listed) = Len(recs)
            /\ \A r \in 1..Len(recs) :
                  /\ listed[r].start_date = services[recs[r]].start_date
                  /\ listed[r].end_date = services[recs[r]].end_date
                  /\ listed[r].is_active = (services[recs[r]].end_date = NullDate)

\* C15: every entry get_upcoming_birthdays(days) returns has days_until from 0
\* to days, and days_until never decreases along the list.
C15_UpcomingWithinDays ==
    [][\A p \in Procs :
         Responds(p, "get_upcoming_birthdays", 200) =>
            LET upcoming == resp'.body
            IN  /\ \A r \in 1..Len(upcoming) :
                      /\ 0 <= upcoming[r].days_until
                      /\ upcoming[r].days_until <= req[p].args.days
                /\ \A q, r \in 1..Len(upcoming) :
                      q < r => upcoming[q].days_until <= upcoming[r].days_until]_vars

C15_Witness ==
    /\ resp.op = "get_upcoming_birthdays"
    /\ resp.status = 200
    /\ Len(resp.body) = 2
    /\ resp.body[1].days_until = 0
    /\ resp.body[2].days_until = 1
    /\ resp.body[1].member_id > resp.body[2].member_id

\* C16: get_upcoming_birthdays lists, with days_until 0, every active member
\* whose birth month and day are those of the day the request is made,
\* whatever the time of day, and gives an entry next year's birthday only when
\* the birthday's month and day are before today's.
C16_BirthdayToday ==
    (resp.op = "get_upcoming_birthdays" /\ resp.status = 200) =>
        LET today == resp.date
        IN  /\ \A i \in 1..Len(members) :
                  ( /\ members[i].is_active
                    /\ members[i].birth_date.text = "iso"
                    /\ members[i].birth_date.m = today.m
                    /\ members[i].birth_date.d = today.d )
                  => \E r \in 1..Len(resp.body) :
                        /\ resp.body[r].member_id = members[i].original_id
                        /\ resp.body[r].days_until = 0
            /\ \A r \in 1..Len(resp.body) :
                  resp.body[r].birthday_date.y > today.y
                     => \/ resp.body[r].birthday_date.m < today.m
                        \/ /\ resp.body[r].birthday_date.m = today.m
                           /\ resp.body[r].birthday_date.d < today.d

\* the step answers a request that arrived with token t
Answers(t) == resp' # NoResponse /\ resp'.op # "register" /\ resp'.token = t

\* C17: a request to a route that requires authentication whose token is
\* missing, invalid or expired, or names a user that is no longer stored, is
\* answered 401 with nothing but the error, the store is left as it was, and
\* no handler runs for it.
C17_Unauthorized ==
    [][ /\ \A t \in NoCredentials..(nextUid - 1) :
              (Answers(t) /\ get_current_user(t) = NoUser) =>
                 /\ resp'.status = 401
                 /\ DOMAIN resp' = {"op", "token", "status"}
                 /\ store' = store
        /\ \A p \in Procs :
              (req[p].pc = "idle" /\ req'[p].pc # "idle" /\ req'[p].op # "register")
                 => get_current_user(req'[p].user.id) = req'[p].user ]_vars

MemberErrorOps == {"get_member", "update_member", "delete_member",
                   "upload_member_photo", "delete_member_photo"}

\* C18: with one request at a time, get_member, update_member, delete_member
\* and the photo operations answer 404 for an original_id no member has
\* (update_member only when its payload is not empty), update_member answers
\* 400 for an empty payload, and a member operation that answers with an error
\* has changed nothing in the store, in that step or an earlier one.
C18_MemberErrors ==
    [][\A p \in Procs :
         /\ (req[p].pc \in MemberErrorOps /\ req[p].pc = req[p].op) =>
               LET absent == \A k \in 1..Len(members) :
                                members[k].original_id # req[p].args.member_id
                   empty == /\ req[p].op = "update_member"
                            /\ \A f \in DOMAIN req[p].args.member_data :
                                  req[p].args.member_data[f] = None
               IN  /\ empty => Responds(p, "update_member", 400)
                   /\ (absent /\ ~empty) => Responds(p, req[p].op, 404)
         /\ ( /\ req'[p].pc = "idle"
              /\ resp' # NoResponse
              /\ resp'.op \in MemberErrorOps \cup {"create_member", "get_members"}
              /\ resp'.status >= 400 )
            => (store' = store /\ (req[p].pc # "idle" => req[p].pc = req[p].op))]_vars

C18_Witness ==
    /\ resp = Response("delete_member_photo", 1, 404)
    /\ events # <<>>
    /\ users[2].role = "user"

\* C19: no step removes a member document or changes a service, family or
\* child document, and a delete_member that answers 200 changes nothing but
\* is_active and departure_date of the one member it selected.
C19_DeactivationFrame ==
    [][ /\ Len(members') >= Len(members)
        /\ \A i \in 1..Len(members) : members'[i].original_id = members[i].original_id
        /\ imported' = imported
        /\ \A p \in Procs :
              Responds(p, "delete_member", 200) =>
                 /\ Len(members') = Len(members)
                 /\ \A i \in 1..Len(members) :
                       /\ \A f \in DOMAIN members[i] \ {"is_active", "departure_date"} :
                             members'[i][f] = members[i][f]
                       /\ members'[i] # members[i] =>
                             i = Min({k \in 1..Len(members) :
                                        members[k].original_id = req[p].args.member_id})
                 /\ <<users, events, files>>' = <<users, events, files>> ]_vars

C19_Witness ==
    /\ resp = Response("delete_member", 1, 200)
    /\ Len(members) = 2
    /\ ~members[1].is_active
    /\ members[1].photo_url # None
    /\ members[2].is_active
    /\ services[1].member_original_id = 1
    /\ families[1].husband_id = Some(1)

\* the active members whose foreign key into the table ref_type is key
Carriers(ref_type, key) ==
    {i \in ActiveMembers(members) : members[i][RefField(ref_type)] = key}

\* the items of the table ref_type, <<>> when the table is absent
ItemsOf(ref_type) ==
    IF find_ref(reference_data, ref_type) = 0 THEN <<>>
    ELSE reference_data[find_ref(reference_data, ref_type)].data

\* the distribution stats is the one the claim describes for the table ref_type
CountsPerKey(stats, ref_type) ==
    LET data == ItemsOf(ref_type)
    IN  /\ \A j \in 1..Len(data) :
              Carriers(ref_type, data[j].key) # {} =>
                 /\ data[j].label \in DOMAIN stats
                 /\ stats[data[j].label] = Cardinality(Carriers(ref_type, data[j].key))
        /\ \A l \in DOMAIN stats :
              \E j \in 1..Len(data) :
                 data[j].label = l /\ Carriers(ref_type, data[j].key) # {}

\* C21: in a statistics snapshot, marital_stats and social_stats hold, for
\* every key of their reference table that some active member carries, the
\* number of active members carrying that key under the key's label, and have
\* no entry for the other keys.
C21_Distributions ==
    StatisticsReturned =>
        /\ CountsPerKey(resp.body.marital_stats, "marital_status")
        /\ CountsPerKey(resp.body.social_stats, "social_status")

\* the same, a label holding the count of the last key in table order that has
\* the label and is carried by an active member
CountsPerLabel(stats, ref_type) ==
    LET data == ItemsOf(ref_type)
        carried == {j \in 1..Len(data) : Carriers(ref_type, data[j].key) # {}}
    IN  /\ DOMAIN stats = {data[j].label : j \in carried}
        /\ \A l \in DOMAIN stats :
              stats[l] = Cardinality(Carriers(ref_type,
                             data[Max({j \in carried : data[j].label = l})].key))

\* C21 as amended: each distribution has one entry for every label of a key
\* that some active member carries, holding the number of active members that
\* carry the last such key of that label in table order, and no other entry.
C21_DistributionsPerLabel ==
    StatisticsReturned =>
        /\ CountsPerLabel(resp.body.marital_stats, "marital_status")
        /\ CountsPerLabel(resp.body.social_stats, "social_status")

C21_Witness ==
    /\ StatisticsReturned
    /\ Len(members) = 3
    /\ Cardinality(Carriers("marital_status", "1")) = 2
    /\ Cardinality(Carriers("marital_status", "2")) = 1
    /\ DOMAIN resp.body.marital_stats = {"married"}
    /\ resp.body.marital_stats["married"] = 1
    /\ DOMAIN resp.body.social_stats = {"worker"}
    /\ resp.body.social_stats["worker"] = 2

\* the members get_birthdays(month) is to list: active, with a birth date that
\* parses, born in the month when one is given
BornIn(month) ==
    {i \in 1..Len(members) :
        /\ members[i].is_active
        /\ members[i].birth_date.text = "iso"
        /\ (month # None => members[i].birth_date.m = month[1])}

\* C22: get_birthdays(month) returns one entry for each active member with a
\* parseable birth date born in the month (for each such member when no month
\* is given) and no other entry, the entry's age being the current year minus
\* the birth year, less one when today's (month, day) is before the birth
\* date's, and the days of the entries never decrease along the list.
C22_BirthdayList ==
    [][\A p \in Procs :
         Responds(p, "get_birthdays", 200) =>
            LET body == resp'.body
                today == resp'.date
                due == BornIn(req[p].args.month)
            IN  /\ Len(body) = Cardinality(due)
                /\ \A q, r \in 1..Len(body) : q < r => body[q].day <= body[r].day
                /\ \A r \in 1..Len(body) :
                      \E i \in due :
                         /\ body[r].member_id = members[i].original_id
                         /\ body[r].day = members[i].birth_date.d
                         /\ body[r].age =
                               today.y - members[i].birth_date.y
                                 - (IF <<today.m, today.d>> \in
                                        {<<m, d>> \in (1..12) \X (1..31) :
                                            \/ m < members[i].birth_date.m
                                            \/ /\ m = members[i].birth_date.m
                                               /\ d < members[i].birth_date.d}
                                    THEN 1 ELSE 0)
                /\ \A i \in due :
                      \E r \in 1..Len(body) : body[r].member_id = members[i].original_id]_vars

\* C23: get_calendar_data(year, month) returns a map keyed by day of month in
\* which the events under day d are the stored events dated in the month on
\* day d, the birthdays under day d are the active members born on day d of
\* that month with age year minus birth year, and a day is a key exactly when
\* it has an event or a birthday.
C23_Calendar ==
    (resp.op = "get_calendar_data" /\ resp.status = 200) =>
        LET year == resp.body.year
            month == resp.body.month
            data == resp.body.data
            held(d) == {k \in 1..Len(events) :
                           /\ events[k].event_date.y = year
                           /\ events[k].event_date.m = month
                           /\ events[k].event_date.d = d}
            born(d) == {i \in 1..Len(members) :
                           /\ members[i].is_active
                           /\ members[i].birth_date.text = "iso"
                           /\ members[i].birth_date.m = month
                           /\ members[i].birth_date.d = d}
        IN  /\ DOMAIN data = {d \in 1..31 : held(d) # {} \/ born(d) # {}}
            /\ \A d \in DOMAIN data :
                  /\ Len(data[d].events) = Cardinality(held(d))
                  /\ Range(data[d].events) = {events[k] : k \in held(d)}
                  /\ Len(data[d].birthdays) = Cardinality(born(d))
                  /\ {<<b.member_id, b.age>> : b \in Range(data[d].birthdays)}
                        = {<<members[i].original_id, year - members[i].birth_date.y>> :
                              i \in born(d)}

\* the snapshot body is the one of the store ms: its counts are those of ms and
\* its age groups count the active members of ms
SnapshotMatches(body, ms) ==
    /\ body.total_members = Len(ms)
    /\ body.active_members = Cardinality({i \in 1..Len(ms) : ms[i].is_active})
    /\ body.inactive_members = Cardinality({i \in 1..Len(ms) : ~ms[i].is_active})
    /\ body.male_count =
          Cardinality({i \in 1..Len(ms) : ms[i].is_active /\ ms[i].gender = "male"})
    /\ body.female_count =
          Cardinality({i \in 1..Len(ms) : ms[i].is_active /\ ms[i].gender = "female"})
    /\ SumOver(body.age_groups, DOMAIN body.age_groups) = body.active_members
    /\ body.age_groups["unknown"] =
          Cardinality({i \in 1..Len(ms) : ms[i].is_active /\ ms[i].birth_date.text # "iso"})

Dangling(ms, fs) == {i \in 1..Len(ms) : ms[i].photo_url # None /\ ms[i].photo_url[1] \notin fs}

\* the step is one of worker p's upload, or cuts it short
UploadStep(p) ==
    /\ req[p].pc # "idle"
    /\ req[p].op = "upload_member_photo"
    /\ req'[p] # req[p]

\* C25: an upload writes its file before it updates the member: no step of an
\* upload, and no crash of one, makes a member's photo_url name a file that
\* does not exist; the photo_url an upload sets names a file already written;
\* and an upload cut short between the two steps leaves the members as they
\* were and its file written and named by no member.
C25_UploadFileFirst ==
    [][\A p \in Procs :
         UploadStep(p) =>
            /\ Dangling(members', files') \subseteq Dangling(members, files)
            /\ \A i \in 1..Len(members) :
                  members'[i].photo_url # members[i].photo_url =>
                     /\ req[p].pc = "upload_update"
                     /\ members'[i].photo_url = Some(req[p].filename)
                     /\ req[p].filename \in files
            /\ (req[p].pc = "upload_update" /\ resp' = NoResponse) =>
                  /\ members' = members
                  /\ req[p].filename \in files'
                  /\ \A i \in 1..Len(members') :
                        members'[i].photo_url # Some(req[p].filename)]_vars

\* an upload was cut short after its file was written: the file is an orphan
C25_Witness ==
    /\ files = {1}
    /\ \A p \in Procs : req[p].pc = "idle"
    /\ \A i \in 1..Len(members) : members[i].photo_url = None
    /\ nextFile = 2
    /\ resp = NoResponse

\* the label the table ref_type has for key, "" when the table or the key is
\* absent
Resolved(ref_type, key) ==
    LET data == ItemsOf(ref_type)
    IN  IF \E j \in 1..Len(data) : data[j].key = key
        THEN data[CHOOSE j \in 1..Len(data) : data[j].key = key].label
        ELSE ""

\* C26: create_member answers 200 whatever tables and keys exist, and every
\* member it has stored carries, for each of marital_status, social_status,
\* education and profession, the table's label for the member's key when the
\* table and the key exist and the empty string otherwise.
C26_ReferenceNames ==
    /\ (resp.op = "create_member" /\ resp.token # 0) => resp.status = 200
    /\ \A i \in 1..Len(members) : \A t \in RefTypes :
          /\ t \in DOMAIN members[i]
          /\ members[i][t] = Resolved(t, members[i][RefField(t)])

\* C27: every member's gender is male or female, and its gender_ukr is the
\* label of that gender, brat for male and sestra for female.
C27_GenderLabel ==
    \A i \in 1..Len(members) :
        /\ members[i].gender \in {"male", "female"}
        /\ members[i].gender = "male" <=> members[i].gender_ukr = "brat"
        /\ members[i].gender = "female" <=> members[i].gender_ukr = "sestra"

\* worker p takes up a request for op made with token t
TakenUp(p, op, t) ==
    /\ req[p].pc = "idle"
    /\ req'[p].pc = op
    /\ req'[p].user.id = t

\* a request for op made with token t is rejected on arrival
Rejected(op, t, status) ==
    /\ req' = req
    /\ resp' = Response(op, t, status)

\* C28: a request is authorised on the user document stored when it arrives:
\* it is answered 401 when no stored user has the token's id (the user was
\* deleted), 403 when the stored role lacks the capability of the operation,
\* and is taken up for the stored document otherwise, whatever the role was
\* when the token was issued.
C28_StoredRoleDecides ==
    [][\A op \in RoleOps : \A t \in 1..(nextUid - 1) :
         ((\E p \in Procs : TakenUp(p, op, t)) \/ Rejected(op, t, resp'.status)) =>
            LET stored == {u \in Range(users) : u.id = t}
            IN  /\ stored = {} => Rejected(op, t, 401)
                /\ \A u \in stored :
                      IF u.role \in ClaimedRoles(op)
                      THEN \E p \in Procs : TakenUp(p, op, t) /\ req'[p].user = u
                      ELSE Rejected(op, t, 403)]_vars

\* bob, registered as user and since made deacon, has created a member with
\* the token of his registration, and alice, since deleted, is answered 401
C28_Witness ==
    /\ Len(members) = 1
    /\ Len(users) = 1
    /\ users[1].id = 2
    /\ users[1].role = "admin"
    /\ resp = Response("get_users", 1, 401)

\* the ids of the users holding role admin
AdminIds(us) == {us[k].id : k \in {j \in 1..Len(us) : us[j].role = "admin"}}

\* C29: a user comes to hold role admin only as the first user of an empty
\* collection or by an update_user_role request served for an admin: no other
\* step adds an admin.
C29_AdminOnlyGranted ==
    [][\A id \in AdminIds(users') \ AdminIds(users) :
          \/ users = <<>>
          \/ \E p \in Procs :
                /\ req[p].pc = "update_user_role"
                /\ req[p].user.role = "admin"
                /\ req[p].args.user_id = id
                /\ req'[p].pc = "idle"]_vars

\* C30: once a registration has succeeded, some stored user holds role admin.
C30_AdminRemains == nextUid > 1 => AdminIds(users) # {}
====
